---------------------------- MODULE Spec2Model ----------------------------
(***************************************************************************)
(* Medusa: the main database migration chain (medusa/databases/main_db.py) *)
(* and the config migration chain (medusa/config/migration.py).            *)
(*                                                                         *)
(* The store is the sqlite file: its tables, the columns the steps add,    *)
(* its indexes and the single row of db_version.  Every connection.action  *)
(* is committed on its own, so one action of the model is one statement.   *)
(***************************************************************************)
EXTENDS Integers, Sequences, FiniteSets, TLC

\* ------------------------------------------------------------ constants
MIN_DB_VERSION == 40
MAX_DB_VERSION == 44
CURRENT_MINOR_DB_VERSION == 8

\* the version InitialSchema.execute inserts into a fresh store
FRESH_DB_VERSION == 42

\* app.CONFIG_VERSION of this build: the last _migrate_vN
CONFIG_VERSION == 10

\* ------------------------------------------------------------ bounds
\* stores handed to the program have a major in
\* MIN_DB_VERSION - BelowMin .. MAX_DB_VERSION + AboveMax
BelowMin == 1
AboveMax == 1
\* a store of a newer build starts with a minor in 0..MaxStartMinor
MaxStartMinor == 1
\* how many times the process is started
MaxRuns == 2
\* a config file starts with a config_version in 0 .. CONFIG_VERSION + CfgAbove
CfgAbove == 1
\* up to this many of the keys a config step reads are absent from the config
MaxAbsent == 2
\* a metadata value of the config has up to this many pipe-separated slots
MaxSlots == 11
\* a provider list of the config holds up to this many descriptors
MaxProviders == 3
\* tv_shows and tv_episodes hold up to this many rows
MaxShows == 2
MaxEpisodes == 2

VARIABLES
    db,          \* the store: [tabs, cols, idx, row, major, minor]
    status,      \* "running", "done", "exit" (sys.exit), "raised", "crashed"
    cls,         \* position of _processUpgrade in the chain of classes
    pc,          \* "test": about to call test(); "execute": inside execute()
    todo,        \* the statements of the running execute() still to run
    runNo,       \* how often the process was started
    started,     \* classes whose execute() began in this run, in order
    completed,   \* classes whose execute() returned in this run, in order
    backups,     \* [cls, label] of every backupDatabase call that succeeded in this run
    step,        \* the running (or last) execute(): [store at its start, backup calls, label,
                 \*   early: a statement ran before the backup, failed: the backup failed,
                 \*   rows: the rows at its start]
    runStart,    \* the store as this run found it
    prev,        \* how the previous run ended: [status, last, boundary, start, at: its cls,
                 \*   rows: the rows its last execute() started on]
    chain,       \* which chain this start of the application is followed through: "db" or "config"
    cfg,         \* the config and its ConfigMigrator: [file: the config_version of the config
                 \*   file, read: the same when __init__ read it, obj: the one of the config
                 \*   object, version, app, pc, backups, steps, saves, failed,
                 \*   start: the config_version __init__ read]
    rows,        \* the rows of the store: [shows, eps, maps], each a set of rows, and
                 \*   tmp: the <<table, row>> pairs of the tables a rebuild creates
    san,         \* the sanity check: [mode, pc, ran, hist: the store before each call]
    call         \* one application of a function of the config migration: [fn, arg, out, pc]

dbVars == <<db, cls, pc, todo, started, completed, backups, step>>

\* what the migration chains leave alone
otherVars == <<rows, san, call>>

vars == <<db, status, cls, pc, todo, runNo, started, completed, backups, step, runStart, prev,
          chain, cfg, rows, san, call>>

\* ------------------------------------------------------------ the chain
\* "Add new migrations at the bottom of the list; subclass the previous
\* migration": _processUpgrade visits the classes in this order.
Chain == << "InitialSchema", "AddVersionToTvEpisodes", "AddDefaultEpStatusToTvShows",
            "AlterTVShowsFieldTypes", "AddMinorVersion", "TestIncreaseMajorVersion",
            "AddProperTags", "AddManualSearched", "AddInfoHash", "AddPlot",
            "AddResourceSize", "AddPKIndexerMapping", "AddIndexerInteger" >>

Op(o, x, y) == [op |-> o, a |-> x, b |-> y]

\* ------------------------------------------------------------ the store
hasTable(d, t) == t \in d.tabs

hasColumn(d, t, c) == <<t, c>> \in d.cols

\* db.DBConnection.checkDBVersion: the major of the db_version row, 0 without one
checkDBVersion(d) ==
    IF hasTable(d, "db_version") /\ d.row THEN d.major ELSE 0

\* db.DBConnection.version: (major, minor), minor 0 without a db_minor_version column
version(d) ==
    << checkDBVersion(d),
       IF hasTable(d, "db_version") /\ d.row /\ hasColumn(d, "db_version", "db_minor_version")
       THEN d.minor ELSE 0 >>

\* Python's tuple comparison v >= w
VersionGE(v, w) == v[1] > w[1] \/ (v[1] = w[1] /\ v[2] >= w[2])

\* the columns a CREATE TABLE of the chain gives a table (of those a step adds later)
CreatedCols(t) ==
    CASE t = "history"         -> { <<t, "version">> }
      [] t = "imdb_info"       -> { <<t, "plot">> }
      [] t = "tv_shows"        -> { <<t, "default_ep_status">> }
      [] t = "tv_episodes"     -> { <<t, "version">>, <<t, "release_group">> }
      [] t = "new_tv_episodes" -> { <<t, "version">>, <<t, "release_group">>,
                                    <<t, "manually_searched">> }
      [] OTHER                 -> {}

ColsOf(d, t) == { p[2] : p \in { q \in d.cols : q[1] = t } }

DropTable(d, t) ==
    [d EXCEPT !.tabs = @ \ {t},
              !.cols = { p \in @ : p[1] # t },
              !.idx  = { p \in @ : p[2] # t },
              !.row  = IF t = "db_version" THEN FALSE ELSE @]

RenameTable(d, t, u) ==
    [d EXCEPT !.tabs = (@ \ {t}) \cup {u},
              !.cols = { p \in @ : p[1] # t } \cup { <<u, p[2]>> : p \in { q \in @ : q[1] = t } },
              !.idx  = { p \in @ : p[2] # t } \cup { <<p[1], u>> : p \in { q \in @ : q[2] = t } }]


\* ------------------------------------------------------------ statements
\* db.SchemaUpgrade.addColumn: ALTER TABLE t ADD c, then UPDATE t SET c = default
addColumn(d, t, c) ==
    [d EXCEPT !.cols = @ \cup { <<t, c>> },
              !.minor = IF t = "db_version" /\ c = "db_minor_version" THEN 0 ELSE @]

\* db.SchemaUpgrade.incDBVersion: UPDATE db_version SET db_version = checkDBVersion() + 1
incDBVersion(d) ==
    IF d.row THEN [d EXCEPT !.major = checkDBVersion(d) + 1] ELSE d

\* AddMinorVersion.inc_major_version as a bug would have it: the minor is reset, the major kept
inc_major_version_KeepsMajor(d) ==
    IF d.row THEN [d EXCEPT !.major = version(d)[1], !.minor = 0] ELSE d

inc_major_version(d) ==
    IF d.row THEN [d EXCEPT !.major = version(d)[1] + 1, !.minor = 0] ELSE d

inc_minor_version(d) ==
    IF d.row THEN [d EXCEPT !.major = version(d)[1], !.minor = version(d)[2] + 1] ELSE d

\* does sqlite (or the Python around the statement) raise on this statement in store d
Raises(o, d) ==
    CASE o.op = "addColumn"          -> ~hasTable(d, o.a) \/ hasColumn(d, o.a, o.b)
      [] o.op = "addColumnIfMissing" -> ~hasTable(d, o.a)
      [] o.op = "incDBVersion"       -> ~hasTable(d, "db_version")
      [] o.op \in {"inc_minor_version", "inc_major_version"} ->
             ~hasTable(d, "db_version") \/ ~hasColumn(d, "db_version", "db_minor_version")
      [] o.op = "dropIfExists"       -> FALSE
      [] o.op = "drop"               -> ~hasTable(d, o.a)
      [] o.op = "rename"             -> ~hasTable(d, o.a) \/ hasTable(d, o.b)
      [] o.op = "create"             -> hasTable(d, o.a)
      [] o.op = "createIfNotExists"  -> FALSE
      [] o.op = "insertSelect"       -> \/ ~hasTable(d, o.a) \/ ~hasTable(d, o.b)
                                        \/ ColsOf(d, o.a) # ColsOf(d, o.b)
      [] o.op = "createIndex"        -> \/ ~hasTable(d, o.b)
                                        \/ \E p \in d.idx : p[1] = o.a
      [] o.op = "insertVersion"      -> ~hasTable(d, "db_version")
      \* MainSanityCheck.update_old_propers selects on history.proper_tags
      [] o.op = "update_old_propers" -> ~hasColumn(d, "history", "proper_tags")
      [] OTHER                       -> FALSE

CreateTable(d, t) ==
    [d EXCEPT !.tabs = @ \cup {t}, !.cols = @ \cup CreatedCols(t)]

\* the store after the statement, when it does not raise
Apply(o, d) ==
    CASE o.op = "addColumn"          -> addColumn(d, o.a, o.b)
      [] o.op = "addColumnIfMissing" -> IF hasColumn(d, o.a, o.b) THEN d
                                        ELSE addColumn(d, o.a, o.b)
      [] o.op = "incDBVersion"       -> incDBVersion(d)
      [] o.op = "inc_minor_version"  -> inc_minor_version(d)
      [] o.op = "inc_major_version"  -> inc_major_version(d)
      [] o.op = "dropIfExists"       -> IF hasTable(d, o.a) THEN DropTable(d, o.a) ELSE d
      [] o.op = "drop"               -> DropTable(d, o.a)
      [] o.op = "rename"             -> RenameTable(d, o.a, o.b)
      [] o.op = "create"             -> CreateTable(d, o.a)
      [] o.op = "createIfNotExists"  -> IF hasTable(d, o.a) THEN d ELSE CreateTable(d, o.a)
      [] o.op = "insertSelect"       -> d
      [] o.op = "createIndex"        -> [d EXCEPT !.idx = @ \cup { <<o.a, o.b>> }]
      [] o.op = "insertVersion"      -> [d EXCEPT !.row = TRUE, !.major = FRESH_DB_VERSION]
      [] OTHER                       -> d

\* ---- the rows of the tables
\* the rows of table t
RowsOf(r, t) ==
    CASE t = "tv_shows"        -> r.shows
      [] t = "tv_episodes"     -> r.eps
      [] t = "indexer_mapping" -> r.maps
      [] OTHER                 -> { p[2] : p \in { q \in r.tmp : q[1] = t } }

SetRows(r, t, s) ==
    CASE t = "tv_shows"        -> [r EXCEPT !.shows = s]
      [] t = "tv_episodes"     -> [r EXCEPT !.eps = s]
      [] t = "indexer_mapping" -> [r EXCEPT !.maps = s]
      [] OTHER                 -> [r EXCEPT !.tmp = { q \in @ : q[1] # t } \cup { <<t, x>> : x \in s }]

\* INSERT INTO a SELECT * FROM b
InsertSelect(r, a, b) == SetRows(r, a, RowsOf(r, a) \cup RowsOf(r, b))

\* the rows after the statement, when it does not raise
ApplyRows(o, r) ==
    CASE o.op \in {"drop", "dropIfExists"} -> SetRows(r, o.a, {})
      [] o.op = "rename"                   -> SetRows(SetRows(r, o.b, RowsOf(r, o.a)), o.a, {})
      [] o.op = "insertSelect"             -> InsertSelect(r, o.a, o.b)
      [] OTHER                             -> r

\* ------------------------------------------------------------ the steps
InitialSchema_test(d) == hasTable(d, "db_version")

InitialSchema_queries ==
    << Op("create", "db_version", ""), Op("create", "history", ""),
       Op("create", "imdb_info", ""), Op("create", "info", ""),
       Op("create", "scene_numbering", ""), Op("create", "tv_shows", ""),
       Op("create", "tv_episodes", ""), Op("create", "blacklist", ""),
       Op("create", "whitelist", ""), Op("create", "xem_refresh", ""),
       Op("create", "indexer_mapping", ""),
       Op("createIndex", "idx_indexer_id", "tv_shows"),
       Op("createIndex", "idx_showid", "tv_episodes"),
       Op("createIndex", "idx_sta_epi_air", "tv_episodes"),
       Op("createIndex", "idx_sta_epi_sta_air", "tv_episodes"),
       Op("createIndex", "idx_status", "tv_episodes"),
       Op("createIndex", "idx_tv_episodes_showid_airdate", "tv_episodes"),
       Op("insertVersion", "", "") >>

InitialSchema_execute(d) ==
    IF ~hasTable(d, "tv_shows") /\ ~hasTable(d, "db_version")
    THEN InitialSchema_queries
    ELSE << Op("checkVersionRange", "", "") >>

AddVersionToTvEpisodes_test(d) == checkDBVersion(d) >= 40

AddVersionToTvEpisodes_execute ==
    << Op("backup", "checkDBVersion", ""),
       Op("addColumn", "tv_episodes", "version"),
       Op("addColumn", "tv_episodes", "release_group"),
       Op("addColumn", "history", "version"),
       Op("incDBVersion", "", "") >>

AddDefaultEpStatusToTvShows_test(d) == checkDBVersion(d) >= 41

AddDefaultEpStatusToTvShows_execute ==
    << Op("backup", "checkDBVersion", ""),
       Op("addColumn", "tv_shows", "default_ep_status"),
       Op("incDBVersion", "", "") >>

\* AlterTVShowsFieldTypes.test as a bug would have it: off by one
AlterTVShowsFieldTypes_test_OffByOne(d) == checkDBVersion(d) > 42

AlterTVShowsFieldTypes_test(d) == checkDBVersion(d) >= 42

AlterTVShowsFieldTypes_execute ==
    << Op("backup", "checkDBVersion", ""),
       Op("dropIfExists", "tmp_tv_shows", ""),
       Op("rename", "tv_shows", "tmp_tv_shows"),
       Op("create", "tv_shows", ""),
       Op("insertSelect", "tv_shows", "tmp_tv_shows"),
       Op("drop", "tmp_tv_shows", ""),
       Op("incDBVersion", "", "") >>

AddMinorVersion_test(d) ==
    checkDBVersion(d) >= 42 /\ hasColumn(d, "db_version", "db_minor_version")

AddMinorVersion_execute ==
    << Op("backup", "checkDBVersion", ""),
       Op("addColumn", "db_version", "db_minor_version"),
       Op("inc_minor_version", "", "") >>

TestIncreaseMajorVersion_test(d) == VersionGE(version(d), <<44, 0>>)

TestIncreaseMajorVersion_execute ==
    << Op("backup", "version", ""),
       Op("inc_major_version", "", ""),
       Op("inc_minor_version", "", "") >>

\* AddProperTags.test as a bug would have it: it looks for the column the step adds
AddProperTags_test_ByColumn(d) == hasColumn(d, "history", "proper_tags")

AddProperTags_test(d) == VersionGE(version(d), <<44, 2>>)

AddProperTags_execute ==
    << Op("backup", "version", ""),
       Op("addColumnIfMissing", "history", "proper_tags"),
       Op("update_old_propers", "", ""),
       Op("inc_minor_version", "", "") >>

AddManualSearched_test(d) == VersionGE(version(d), <<44, 3>>)

AddManualSearched_execute ==
    << Op("backup", "version", ""),
       Op("addColumnIfMissing", "history", "manually_searched"),
       Op("addColumnIfMissing", "tv_episodes", "manually_searched"),
       Op("update_old_propers", "", ""),
       Op("inc_minor_version", "", "") >>

AddInfoHash_test(d) == VersionGE(version(d), <<44, 4>>)

AddInfoHash_execute ==
    << Op("backup", "version", ""),
       Op("addColumnIfMissing", "history", "info_hash"),
       Op("inc_minor_version", "", "") >>

AddPlot_test(d) == VersionGE(version(d), <<44, 5>>)

AddPlot_execute ==
    << Op("backup", "version", ""),
       Op("addColumnIfMissing", "imdb_info", "plot"),
       Op("addColumnIfMissing", "tv_shows", "plot"),
       Op("inc_minor_version", "", "") >>

AddResourceSize_test(d) == VersionGE(version(d), <<44, 6>>)

AddResourceSize_execute ==
    << Op("backup", "version", ""),
       Op("addColumnIfMissing", "history", "size"),
       Op("inc_minor_version", "", "") >>

AddPKIndexerMapping_test(d) == VersionGE(version(d), <<44, 7>>)

\* AddPKIndexerMapping.execute as a bug would have it: the backup after the first statement
AddPKIndexerMapping_execute_LateBackup ==
    << Op("dropIfExists", "new_indexer_mapping", ""),
       Op("backup", "version", ""),
       Op("createIfNotExists", "new_indexer_mapping", ""),
       Op("insertSelect", "new_indexer_mapping", "indexer_mapping"),
       Op("dropIfExists", "indexer_mapping", ""),
       Op("rename", "new_indexer_mapping", "indexer_mapping"),
       Op("dropIfExists", "new_indexer_mapping", ""),
       Op("inc_minor_version", "", "") >>

AddPKIndexerMapping_execute ==
    << Op("backup", "version", ""),
       Op("dropIfExists", "new_indexer_mapping", ""),
       Op("createIfNotExists", "new_indexer_mapping", ""),
       Op("insertSelect", "new_indexer_mapping", "indexer_mapping"),
       Op("dropIfExists", "indexer_mapping", ""),
       Op("rename", "new_indexer_mapping", "indexer_mapping"),
       Op("dropIfExists", "new_indexer_mapping", ""),
       Op("inc_minor_version", "", "") >>

AddIndexerInteger_test(d) == VersionGE(version(d), <<44, 8>>)

AddIndexerInteger_execute ==
    << Op("backup", "version", ""),
       Op("dropIfExists", "new_tv_episodes", ""),
       Op("create", "new_tv_episodes", ""),
       Op("insertSelect", "new_tv_episodes", "tv_episodes"),
       Op("dropIfExists", "tv_episodes", ""),
       Op("rename", "new_tv_episodes", "tv_episodes"),
       Op("dropIfExists", "new_tv_episodoes", ""),
       Op("inc_minor_version", "", "") >>

\* test() of the c-th class of the chain
test(c, d) ==
    CASE Chain[c] = "InitialSchema"               -> InitialSchema_test(d)
      [] Chain[c] = "AddVersionToTvEpisodes"      -> AddVersionToTvEpisodes_test(d)
      [] Chain[c] = "AddDefaultEpStatusToTvShows" -> AddDefaultEpStatusToTvShows_test(d)
      [] Chain[c] = "AlterTVShowsFieldTypes"      -> AlterTVShowsFieldTypes_test(d)
      [] Chain[c] = "AddMinorVersion"             -> AddMinorVersion_test(d)
      [] Chain[c] = "TestIncreaseMajorVersion"    -> TestIncreaseMajorVersion_test(d)
      [] Chain[c] = "AddProperTags"               -> AddProperTags_test(d)
      [] Chain[c] = "AddManualSearched"           -> AddManualSearched_test(d)
      [] Chain[c] = "AddInfoHash"                 -> AddInfoHash_test(d)
      [] Chain[c] = "AddPlot"                     -> AddPlot_test(d)
      [] Chain[c] = "AddResourceSize"             -> AddResourceSize_test(d)
      [] Chain[c] = "AddPKIndexerMapping"         -> AddPKIndexerMapping_test(d)
      [] OTHER                                    -> AddIndexerInteger_test(d)

\* the statements of execute() of the c-th class, as it finds the store
execute(c, d) ==
    CASE Chain[c] = "InitialSchema"               -> InitialSchema_execute(d)
      [] Chain[c] = "AddVersionToTvEpisodes"      -> AddVersionToTvEpisodes_execute
      [] Chain[c] = "AddDefaultEpStatusToTvShows" -> AddDefaultEpStatusToTvShows_execute
      [] Chain[c] = "AlterTVShowsFieldTypes"      -> AlterTVShowsFieldTypes_execute
      [] Chain[c] = "AddMinorVersion"             -> AddMinorVersion_execute
      [] Chain[c] = "TestIncreaseMajorVersion"    -> TestIncreaseMajorVersion_execute
      [] Chain[c] = "AddProperTags"               -> AddProperTags_execute
      [] Chain[c] = "AddManualSearched"           -> AddManualSearched_execute
      [] Chain[c] = "AddInfoHash"                 -> AddInfoHash_execute
      [] Chain[c] = "AddPlot"                     -> AddPlot_execute
      [] Chain[c] = "AddResourceSize"             -> AddResourceSize_execute
      [] Chain[c] = "AddPKIndexerMapping"         -> AddPKIndexerMapping_execute
      [] OTHER                                    -> AddIndexerInteger_execute

\* ------------------------------------------------------------ initial stores
BaseTables == { "history", "imdb_info", "info", "scene_numbering", "tv_shows",
                "tv_episodes", "blacklist", "whitelist", "xem_refresh", "indexer_mapping" }

RequiredIndexes == { <<"idx_indexer_id", "tv_shows">>,
                     <<"idx_tv_episodes_showid_airdate", "tv_episodes">>,
                     <<"idx_showid", "tv_episodes">>,
                     <<"idx_status", "tv_episodes">>,
                     <<"idx_sta_epi_air", "tv_episodes">>,
                     <<"idx_sta_epi_sta_air", "tv_episodes">> }

\* the columns the c-th class adds
StepCols(c) ==
    LET ops == execute(c, [tabs |-> {"db_version"}])
    IN  { <<ops[i].a, ops[i].b>> :
            i \in { j \in 1..Len(ops) : ops[j].op \in {"addColumn", "addColumnIfMissing"} } }

\* a brand-new store: an empty file
FreshStore ==
    [tabs |-> {}, cols |-> {}, idx |-> {}, row |-> FALSE, major |-> 0, minor |-> 0]

\* a store older than the db_version table
NoLedgerStore ==
    [tabs |-> BaseTables, cols |-> {}, idx |-> RequiredIndexes,
     row |-> FALSE, major |-> 0, minor |-> 0]

\* a store an earlier build left at (major, minor): it has the structure of
\* exactly the steps its ledger says it has passed
StoreAt(major, hasMinor, minor) ==
    LET ledger == [tabs |-> {"db_version"}, row |-> TRUE, major |-> major, minor |-> minor,
                   cols |-> IF hasMinor THEN { <<"db_version", "db_minor_version">> } ELSE {}]
    IN  [tabs  |-> BaseTables \cup {"db_version"},
         cols  |-> ledger.cols \cup
                   UNION { StepCols(c) \ { <<"db_version", "db_minor_version">> } :
                             c \in { k \in 2..Len(Chain) : test(k, ledger) } },
         idx   |-> RequiredIndexes,
         row   |-> TRUE,
         major |-> major,
         minor |-> minor]

StartMajors == (MIN_DB_VERSION - BelowMin) .. (MAX_DB_VERSION + AboveMax)

\* the stores the program is started on: a new file, a store from before the
\* ledger, a store of an older build (the ledger has a major only), and a
\* store of a newer build.  The stores with a db_minor_version column and a
\* major up to MAX_DB_VERSION are the ones the chain itself leaves behind.
InitStores ==
    { FreshStore, NoLedgerStore }
    \cup { StoreAt(m, FALSE, 0) : m \in StartMajors }
    \cup { StoreAt(m, TRUE, n) : m \in { k \in StartMajors : k > MAX_DB_VERSION },
                                 n \in 0..MaxStartMinor }

\* the value of a key of the config: <<>> without the key, << text >> with it;
\* the text of the integer n
Stored(n) == << ToString(n) >>

\* the config_version of the config files the program is started on: no key,
\* an integer in 0 .. CONFIG_VERSION + CfgAbove, or another text
ConfigFiles ==
    { <<>> } \cup { Stored(v) : v \in 0..(CONFIG_VERSION + CfgAbove) }
    \cup { << t >> : t \in { "abc", "3.5", "true", "True", "false" } }

\* str(my_val).lower() on the texts of the model
str_lower(t) == IF t = "True" THEN "true" ELSE t

\* int(my_val): the integer a decimal numeral denotes; ValueError for any other text
IsNumeral(t) == \E n \in 0..(CONFIG_VERSION + CfgAbove) : ToString(n) = t

int(t) == CHOOSE n \in 0..(CONFIG_VERSION + CfgAbove) : ToString(n) = t

\* check_setting_int as a bug would have it: 0 instead of def_val
check_setting_int_Zero(stored, def_val) ==
    IF stored = <<>> THEN [val |-> 0, config |-> Stored(0)]
    ELSE IF str_lower(stored[1]) = "true" THEN [val |-> 1, config |-> stored]
    ELSE IF str_lower(stored[1]) = "false" THEN [val |-> 0, config |-> stored]
    ELSE IF IsNumeral(stored[1]) THEN [val |-> int(stored[1]), config |-> stored]
    ELSE [val |-> 0, config |-> Stored(0)]

\* check_setting_int on a key of the config object: the value it returns and
\* the key afterwards; a missing key (KeyError) and a text that int() rejects
\* (ValueError) give def_val, which is written back to the config object
check_setting_int(stored, def_val) ==
    IF stored = <<>> THEN [val |-> def_val, config |-> Stored(def_val)]
    ELSE IF str_lower(stored[1]) = "true" THEN [val |-> 1, config |-> stored]
    ELSE IF str_lower(stored[1]) = "false" THEN [val |-> 0, config |-> stored]
    ELSE IF IsNumeral(stored[1]) THEN [val |-> int(stored[1]), config |-> stored]
    ELSE [val |-> def_val, config |-> Stored(def_val)]

\* ConfigMigrator.__init__ on the config object of a config file whose
\* config_version is file
ConfigMigrator(file) ==
    LET config_version == check_setting_int(file, CONFIG_VERSION)
    IN  [file |-> file, read |-> file, obj |-> config_version.config,
         version |-> config_version.val, app |-> CONFIG_VERSION, pc |-> "check",
         backups |-> <<>>, steps |-> <<>>, saves |-> 0, failed |-> FALSE,
         start |-> config_version.val]

\* a store with tables: one row, denoted by its rowid, in each of tv_shows,
\* tv_episodes and indexer_mapping
SomeRows == [shows |-> {1}, eps |-> {1}, maps |-> {1}, tmp |-> {}]

\* a store without rows
NoRows == [shows |-> {}, eps |-> {}, maps |-> {}, tmp |-> {}]

NoStep == [store |-> FreshStore, backups |-> 0, early |-> FALSE, label |-> <<>>, failed |-> FALSE,
           rows |-> NoRows]

\* MainSanityCheck.check has not been called; fault: a statement of the routine
\* called last failed for a reason outside the store (disk, lock)
NoSanity == [mode |-> "none", pc |-> 0, ran |-> <<>>, hist |-> <<>>, fault |-> FALSE]

\* no function of the config migration is being applied
NoCall == [fn |-> "none", arg |-> <<>>, out |-> <<>>, pc |-> "none"]

Init ==
    /\ chain \in {"db", "config"}
    /\ san = NoSanity
    /\ call = NoCall
    /\ db \in IF chain = "db" THEN InitStores ELSE {FreshStore}
    /\ rows = IF hasTable(db, "tv_shows") THEN SomeRows ELSE NoRows
    /\ cfg \in IF chain = "config"
               THEN { ConfigMigrator(f) : f \in ConfigFiles }
               ELSE { ConfigMigrator(Stored(CONFIG_VERSION)) }
    /\ status = "running"
    /\ cls = 1
    /\ pc = "test"
    /\ todo = <<>>
    /\ runNo = 1
    /\ started = <<>>
    /\ completed = <<>>
    /\ backups = <<>>
    /\ step = NoStep
    /\ runStart = db
    /\ prev = [status |-> "none", last |-> 0, boundary |-> FALSE, start |-> FreshStore,
               at |-> 1, rows |-> NoRows]

\* ------------------------------------------------------------ the driver
\* db._processUpgrade: go on with the subclass, or return from upgradeDatabase
NextClass ==
    IF cls = Len(Chain)
    THEN status' = "done" /\ cls' = cls
    ELSE status' = "running" /\ cls' = cls + 1

\* the statement at the head of todo has run
Continue ==
    /\ todo' = Tail(todo)
    /\ IF Tail(todo) = <<>>
       THEN /\ pc' = "test"
            /\ completed' = Append(completed, cls)
            /\ NextClass
       ELSE UNCHANGED <<pc, completed, status, cls>>

\* db._processUpgrade: instance.test(), and the start of instance.execute()
ProcessUpgrade ==
    /\ chain = "db" /\ status = "running" /\ pc = "test"
    /\ IF test(cls, db)
       THEN /\ NextClass
            /\ UNCHANGED <<pc, todo, started, step>>
       ELSE /\ pc' = "execute"
            /\ todo' = execute(cls, db)
            /\ started' = Append(started, cls)
            /\ step' = [NoStep EXCEPT !.store = db, !.rows = rows]
            /\ UNCHANGED <<status, cls>>
    /\ UNCHANGED <<db, runNo, completed, backups, runStart, prev, chain, cfg, otherVars>>

\* backupDatabase as a bug would have it: a failed backup is logged and the upgrade goes on
BackupAborts_Never(ok) == FALSE

\* does backupDatabase end the process, given what backup_versioned_file returned
BackupAborts(ok) == ~ok

\* backupDatabase(version)
backupDatabase ==
    /\ chain = "db" /\ status = "running" /\ pc = "execute"
    /\ Head(todo).op = "backup"
    /\ LET label == IF Head(todo).a = "checkDBVersion"
                    THEN << checkDBVersion(db) >> ELSE version(db)
       IN \E ok \in BOOLEAN :
            /\ step' = [step EXCEPT !.backups = @ + 1, !.label = label, !.failed = @ \/ ~ok]
            /\ IF BackupAborts(ok)
               THEN /\ status' = "exit"
                    /\ UNCHANGED <<todo, pc, completed, cls, backups>>
               ELSE /\ backups' = IF ok THEN Append(backups, [cls |-> cls, label |-> label])
                                  ELSE backups
                    /\ Continue
    /\ UNCHANGED <<db, runNo, started, runStart, prev, chain, cfg, otherVars>>

\* InitialSchema.execute on a store that has tables: the range check
CheckVersionRange ==
    /\ chain = "db" /\ status = "running" /\ pc = "execute"
    /\ Head(todo).op = "checkVersionRange"
    /\ IF checkDBVersion(db) < MIN_DB_VERSION
       THEN /\ status' = "exit"
            /\ UNCHANGED <<todo, pc, completed, cls>>
       ELSE \* above MAX_DB_VERSION the code logs an error and returns
            Continue
    /\ UNCHANGED <<db, runNo, started, backups, step, runStart, prev, chain, cfg, otherVars>>

\* one connection.action (or helper built on it) of the running execute()
Statement ==
    /\ chain = "db" /\ status = "running" /\ pc = "execute"
    /\ Head(todo).op \notin {"backup", "checkVersionRange"}
    /\ \E ioError \in BOOLEAN :
         IF ioError \/ Raises(Head(todo), db)
         THEN /\ status' = "raised"
              /\ UNCHANGED <<db, rows, todo, pc, completed, cls, step>>
         ELSE /\ db' = Apply(Head(todo), db)
              /\ rows' = ApplyRows(Head(todo), rows)
              /\ step' = [step EXCEPT !.early = @ \/ step.backups = 0]
              /\ Continue
    /\ UNCHANGED <<runNo, started, backups, runStart, prev, chain, cfg, san, call>>

\* ------------------------------------------------------------ the config chain
\* migrate_config, line 50, as a bug would have it: off by one
ConfigTooNew_OffByOne(v) == v > CONFIG_VERSION + 1

\* migrate_config, line 50: self.config_version > self.expected_config_version
ConfigTooNew(v) == v > CONFIG_VERSION

\* migrate_config, line 59, as a bug would have it: <= instead of <
ConfigBehind_Inclusive(v) == v <= CONFIG_VERSION

\* migrate_config, line 59: the condition of the while loop
ConfigBehind(v) == v < CONFIG_VERSION

\* migrate_config, lines 50-57: the too-new check
MigrateConfigCheck ==
    /\ chain = "config" /\ status = "running" /\ cfg.pc = "check"
    /\ IF ConfigTooNew(cfg.version)
       THEN status' = "exit" /\ UNCHANGED cfg
       ELSE /\ cfg' = [cfg EXCEPT !.app = cfg.version, !.pc = "loop"]
            /\ status' = IF ConfigBehind(cfg.version) THEN "running" ELSE "done"
    /\ UNCHANGED <<dbVars, runNo, runStart, prev, chain, otherVars>>

\* migrate_config, lines 60-71, as a bug would have it: the backup is labelled
\* with next_version
MigrateConfigBackup_LabelsNext ==
    /\ chain = "config" /\ status = "running" /\ cfg.pc = "loop"
    /\ \E ok \in BOOLEAN :
         IF ok
         THEN /\ cfg' = [cfg EXCEPT !.backups = Append(@, cfg.version + 1), !.pc = "migrate"]
              /\ UNCHANGED status
         ELSE /\ cfg' = [cfg EXCEPT !.failed = TRUE]
              /\ status' = "exit"
    /\ UNCHANGED <<dbVars, runNo, runStart, prev, chain, otherVars>>

\* migrate_config, lines 60-71: the backup that opens an iteration of the loop
MigrateConfigBackup ==
    /\ chain = "config" /\ status = "running" /\ cfg.pc = "loop"
    /\ \E ok \in BOOLEAN :
         IF ok
         THEN /\ cfg' = [cfg EXCEPT !.backups = Append(@, cfg.version), !.pc = "migrate"]
              /\ UNCHANGED status
         ELSE \* logger.log_error_and_exit
              /\ cfg' = [cfg EXCEPT !.failed = TRUE]
              /\ status' = "exit"
    /\ UNCHANGED <<dbVars, runNo, runStart, prev, chain, otherVars>>

\* app.instance.save_config: the config file is written with
\* config_version = app.CONFIG_VERSION
save_config(c) == [c EXCEPT !.file = Stored(c.app), !.saves = @ + 1]

\* migrate_config, lines 76-82: _migrate_v<next>(), the version, save_config
MigrateConfigStep ==
    /\ chain = "config" /\ status = "running" /\ cfg.pc = "migrate"
    /\ \E raises \in BOOLEAN :
         IF raises
         THEN status' = "raised" /\ UNCHANGED cfg
         ELSE /\ cfg' = save_config([cfg EXCEPT !.steps = Append(@, cfg.version + 1),
                                                !.version = cfg.version + 1,
                                                !.app = cfg.version + 1,
                                                !.pc = "loop"])
              /\ status' = IF ConfigBehind(cfg.version + 1) THEN "running" ELSE "done"
    /\ UNCHANGED <<dbVars, runNo, runStart, prev, chain, otherVars>>

\* ------------------------------------------------------------ the process
\* the process is killed
Crash ==
    /\ status = "running"
    /\ status' = "crashed"
    /\ UNCHANGED <<dbVars, runNo, runStart, prev, chain, cfg, otherVars>>

\* the application is started again on the store and the config file as they were left
Restart ==
    /\ status # "running"
    /\ runNo < MaxRuns
    /\ runNo' = runNo + 1
    /\ status' = "running"
    /\ cls' = 1
    /\ pc' = "test"
    /\ todo' = <<>>
    /\ started' = <<>>
    /\ completed' = <<>>
    /\ backups' = <<>>
    /\ step' = NoStep
    /\ runStart' = db
    /\ prev' = [status |-> status,
                last |-> IF completed = <<>> THEN 0 ELSE completed[Len(completed)],
                boundary |-> pc = "test" \/ Head(todo).op = "backup",
                start |-> runStart,
                at |-> cls,
                rows |-> step.rows]
    /\ cfg' = ConfigMigrator(cfg.file)
    /\ UNCHANGED <<db, chain, otherVars>>

Next ==
    \/ ProcessUpgrade
    \/ backupDatabase
    \/ CheckVersionRange
    \/ Statement
    \/ MigrateConfigCheck
    \/ MigrateConfigBackup
    \/ MigrateConfigStep
    \/ Crash
    \/ Restart

Spec == Init /\ [][Next]_vars

\* ------------------------------------------------------------ the sanity check
\* MainSanityCheck.check: the routines in the order it calls them
Routines ==
    << "fix_missing_table_indexes", "fix_duplicate_shows", "fix_duplicate_episodes",
       "fix_orphan_episodes", "fix_unaired_episodes", "fix_indexer_show_statues",
       "fix_episode_statuses", "fix_invalid_airdates", "fix_show_nfo_lang",
       "convert_archived_to_compound", "fix_subtitle_reference",
       "clean_null_indexer_mappings" >>

\* datetime.date.today().toordinal() and datetime.date.max.toordinal(), scaled down
Today == 2
DateMax == 4

\* SQL NULL in a key column
NULL == 0

\* PRAGMA index_info(name): does an index of that name exist
hasIndex(d, n) == \E p \in d.idx : p[1] = n

\* what a routine leaves: the store, and whether it raised
Outcome(d, r, e) == [db |-> d, rows |-> r, raised |-> e]

\* the n rows sqlite returns first: in rowid order, or in descending order of the id
\* LIMIT count - 1 as a bug would have it: LIMIT count
LowestIds_OneMore(ids, n) == { i \in ids : Cardinality({ j \in ids : j < i }) < n + 1 }

LowestIds(ids, n) == { i \in ids : Cardinality({ j \in ids : j < i }) < n }

\* ORDER BY episode_id DESC as a bug would have it: ascending
HighestIds_Ascending(ids, n) == { i \in ids : Cardinality({ j \in ids : j < i }) < n }

HighestIds(ids, n) == { i \in ids : Cardinality({ j \in ids : j > i }) < n }

\* the six indexes in the order fix_missing_table_indexes looks for them
RequiredIndexSeq ==
    << <<"idx_indexer_id", "tv_shows">>,
       <<"idx_tv_episodes_showid_airdate", "tv_episodes">>,
       <<"idx_showid", "tv_episodes">>,
       <<"idx_status", "tv_episodes">>,
       <<"idx_sta_epi_air", "tv_episodes">>,
       <<"idx_sta_epi_sta_air", "tv_episodes">> >>

\* CREATE UNIQUE INDEX ... ON tv_shows(indexer_id) fails on rows that share a
\* non-null indexer_id
UniqueViolated(r) ==
    \E a, b \in r.shows :
       a.show_id # b.show_id /\ a.indexer_id = b.indexer_id /\ a.indexer_id # NULL

\* fix_missing_table_indexes as a bug would have it: elif instead of if, one index a call
RECURSIVE CreateMissing_OnlyFirst(_, _, _)
CreateMissing_OnlyFirst(seq, d, r) ==
    IF seq = <<>> THEN Outcome(d, r, FALSE)
    ELSE IF hasIndex(d, Head(seq)[1]) THEN CreateMissing_OnlyFirst(Tail(seq), d, r)
    ELSE IF Head(seq)[1] = "idx_indexer_id" /\ UniqueViolated(r) THEN Outcome(d, r, TRUE)
    ELSE Outcome([d EXCEPT !.idx = @ \cup { Head(seq) }], r, FALSE)

RECURSIVE CreateMissing(_, _, _)
CreateMissing(seq, d, r) ==
    IF seq = <<>> THEN Outcome(d, r, FALSE)
    ELSE IF hasIndex(d, Head(seq)[1]) THEN CreateMissing(Tail(seq), d, r)
    ELSE IF Head(seq)[1] = "idx_indexer_id" /\ UniqueViolated(r) THEN Outcome(d, r, TRUE)
    ELSE CreateMissing(Tail(seq), [d EXCEPT !.idx = @ \cup { Head(seq) }], r)

fix_missing_table_indexes(d, r) == { CreateMissing(RequiredIndexSeq, d, r) }

\* GROUP BY indexer_id HAVING COUNT(indexer_id) > 1 (COUNT skips NULL), then for
\* each group SELECT ... WHERE indexer_id = ? LIMIT count - 1 and a DELETE for each row
fix_duplicate_shows(d, r) ==
    LET group(k) == { s.show_id : s \in { t \in r.shows : t.indexer_id = k } }
        keys     == { s.indexer_id : s \in r.shows } \ { NULL }
        dupes    == UNION { LowestIds(group(k), Cardinality(group(k)) - 1) :
                              k \in { x \in keys : Cardinality(group(x)) > 1 } }
    IN  { Outcome(d, [r EXCEPT !.shows = { s \in @ : s.show_id \notin dupes }], FALSE) }

\* GROUP BY showid, season, episode HAVING COUNT(showid) > 1 (COUNT skips NULL), then
\* for each group SELECT ... ORDER BY episode_id DESC LIMIT count - 1 and a DELETE for each row
fix_duplicate_episodes(d, r) ==
    LET key(e)   == << e.showid, e.season, e.episode >>
        group(k) == { e.episode_id : e \in { f \in r.eps : key(f) = k } }
        keys     == { key(e) : e \in { f \in r.eps : f.showid # NULL } }
        dupes    == UNION { HighestIds(group(k), Cardinality(group(k)) - 1) :
                              k \in { x \in keys : Cardinality(group(x)) > 1 } }
    IN  { Outcome(d, [r EXCEPT !.eps = { e \in @ : e.episode_id \notin dupes }], FALSE) }

\* tv_episodes LEFT JOIN tv_shows ON showid = indexer_id WHERE tv_shows.indexer_id IS NULL
\* fix_orphan_episodes as a bug would have it: the join is on show_id
fix_orphan_episodes_ByShowId(d, r) ==
    LET orphan(e) == e.showid = NULL \/ \A s \in r.shows : s.show_id # e.showid
    IN  { Outcome(d, [r EXCEPT !.eps = { e \in @ : ~orphan(e) }], FALSE) }

fix_orphan_episodes(d, r) ==
    LET orphan(e) == e.showid = NULL \/ \A s \in r.shows : s.indexer_id # e.showid
    IN  { Outcome(d, [r EXCEPT !.eps = { e \in @ : ~orphan(e) }], FALSE) }

fix_unaired_episodes(d, r) ==
    LET unaired(e) == /\ (e.airdate > Today \/ e.airdate = 1)
                      /\ e.status \in {"SKIPPED", "WANTED"}
                      /\ e.season > 0
    IN  { Outcome(d, [r EXCEPT !.eps = { IF unaired(e) THEN [e EXCEPT !.status = "UNAIRED"]
                                         ELSE e : e \in @ }], FALSE) }

\* indexer_config.STATUS_MAP, two of its entries
STATUS_MAP == [ old \in {"returning series", "ended"} |->
                  IF old = "ended" THEN "Ended" ELSE "Continuing" ]

\* SQL LOWER() on the show statuses of the model
LOWER(x) == CASE x = "Ended" -> "ended" [] x = "Continuing" -> "continuing" [] OTHER -> x

fix_indexer_show_statues(d, r) ==
    { Outcome(d, [r EXCEPT !.shows = { IF LOWER(s.status) \in DOMAIN STATUS_MAP
                                       THEN [s EXCEPT !.status = STATUS_MAP[LOWER(s.status)]]
                                       ELSE s : s \in @ }], FALSE) }

fix_episode_statuses(d, r) ==
    { Outcome(d, [r EXCEPT !.eps = { IF e.status = "NULL" THEN [e EXCEPT !.status = "UNKNOWN"]
                                     ELSE e : e \in @ }], FALSE) }

\* fix_invalid_airdates as a bug would have it: airdate > ? instead of airdate >= ?
fix_invalid_airdates_Exclusive(d, r) ==
    LET bad(e) == e.airdate > DateMax \/ e.airdate < 1
    IN  { Outcome(d, [r EXCEPT !.eps = { IF bad(e) THEN [e EXCEPT !.airdate = 1]
                                         ELSE e : e \in @ }], FALSE) }

fix_invalid_airdates(d, r) ==
    LET bad(e) == e.airdate >= DateMax \/ e.airdate < 1
    IN  { Outcome(d, [r EXCEPT !.eps = { IF bad(e) THEN [e EXCEPT !.airdate = 1]
                                         ELSE e : e \in @ }], FALSE) }

fix_show_nfo_lang(d, r) ==
    { Outcome(d, [r EXCEPT !.shows = { IF s.lang = "0" THEN [s EXCEPT !.lang = ""]
                                       ELSE s : s \in @ }], FALSE) }

\* the bare ARCHIVED episodes of a show in tv_shows get a composite status; the
\* quality is read from the name of the file when os.path.exists(location)
convert_archived_to_compound(d, r) ==
    LET archived == { e \in r.eps : /\ e.status = "ARCHIVED"
                                    /\ e.showid # NULL
                                    /\ \E s \in r.shows : s.indexer_id = e.showid }
        onDisk   == { e.episode_id : e \in { f \in archived : f.location # "" } }
        fixed(e, named) ==
            IF e \notin archived THEN e
            ELSE [e EXCEPT !.status = IF e.episode_id \in named THEN "ARCHIVED_QUALITY"
                                      ELSE "ARCHIVED_UNKNOWN"]
    IN  { Outcome(d, [r EXCEPT !.eps = { fixed(e, named) : e \in @ }], FALSE) :
            named \in SUBSET onDisk }

fix_subtitle_reference(d, r) ==
    LET deleted(e) == e.location = "" /\ e.subtitles # ""
    IN  { Outcome(d, [r EXCEPT !.eps = { IF deleted(e) THEN [e EXCEPT !.subtitles = ""]
                                         ELSE e : e \in @ }], FALSE) }

clean_null_indexer_mappings(d, r) ==
    { Outcome(d, [r EXCEPT !.maps = { m \in @ : m.mindexer_id # "" }], FALSE) }

\* the outcomes of the routine of that name on the store (d, r)
Routine(name, d, r) ==
    CASE name = "fix_missing_table_indexes"    -> fix_missing_table_indexes(d, r)
      [] name = "fix_duplicate_shows"          -> fix_duplicate_shows(d, r)
      [] name = "fix_duplicate_episodes"       -> fix_duplicate_episodes(d, r)
      [] name = "fix_orphan_episodes"          -> fix_orphan_episodes(d, r)
      [] name = "fix_unaired_episodes"         -> fix_unaired_episodes(d, r)
      [] name = "fix_indexer_show_statues"     -> fix_indexer_show_statues(d, r)
      [] name = "fix_episode_statuses"         -> fix_episode_statuses(d, r)
      [] name = "fix_invalid_airdates"         -> fix_invalid_airdates(d, r)
      [] name = "fix_show_nfo_lang"            -> fix_show_nfo_lang(d, r)
      [] name = "convert_archived_to_compound" -> convert_archived_to_compound(d, r)
      [] name = "fix_subtitle_reference"       -> fix_subtitle_reference(d, r)
      [] OTHER                                 -> clean_null_indexer_mappings(d, r)


\* MainSanityCheck.check on the store (d, r): the routines from the i-th on, each
\* on what the one before it left; an exception of a routine leaves check()
RECURSIVE check_from(_, _, _)
check_from(i, d, r) ==
    IF i > Len(Routines) THEN { Outcome(d, r, FALSE) }
    ELSE UNION { IF o.raised THEN { o } ELSE check_from(i + 1, o.db, o.rows) :
                   o \in Routine(Routines[i], d, r) }

check(d, r) == check_from(1, d, r)

\* ---- the stores the sanity check is started on
\* a tv_shows row and a tv_episodes row with nothing to repair
Show(id, indexer_id) ==
    [show_id |-> id, indexer_id |-> indexer_id, status |-> "Continuing", lang |-> "en"]

Episode(id, showid, season) ==
    [episode_id |-> id, showid |-> showid, season |-> season, episode |-> 1,
     airdate |-> Today, status |-> "DOWNLOADED", location |-> "f", subtitles |-> ""]

IndexerIds == {1, 2}
Seasons == {0, 1}
Airdates == {0, 1, Today, Today + 1, DateMax}
EpisodeStatuses == {"NULL", "SKIPPED", "WANTED", "UNAIRED", "ARCHIVED", "DOWNLOADED"}
ShowStatuses == {"returning series", "ended", "Continuing"}
MappingRows == { [indexer_id |-> 1, mindexer_id |-> ""], [indexer_id |-> 1, mindexer_id |-> "7"] }

\* tv_shows with rows 1..n, tv_episodes with rows 1..n: every choice of the keys
ShowTables ==
    UNION { { { Show(i, f[i]) : i \in 1..n } : f \in [1..n -> IndexerIds] } : n \in 0..MaxShows }

EpisodeTables ==
    UNION { { { Episode(i, f[i][1], f[i][2]) : i \in 1..n } :
                f \in [1..n -> (IndexerIds \X Seasons)] } : n \in 0..MaxEpisodes }

\* the store of the current version, with the indexes of some tables missing
StoreWithIndexesOf(tables) ==
    [ StoreAt(MAX_DB_VERSION, TRUE, CURRENT_MINOR_DB_VERSION)
        EXCEPT !.idx = { p \in RequiredIndexes : p[2] \in tables } ]

CurrentStore == StoreWithIndexesOf({"tv_shows", "tv_episodes"})

\* two shows and two episodes some of which have NULL in the key column
NullKeyStores ==
    { [db |-> CurrentStore,
       rows |-> [shows |-> { Show(1, k[1]), Show(2, k[2]) },
                 eps |-> { Episode(1, k[3], 1), Episode(2, k[4], 1) },
                 maps |-> {}, tmp |-> {}]] :
        k \in { f \in [1..4 -> {NULL, 1}] : NULL \in { f[i] : i \in 1..4 } } }

\* the stores: every choice of the keys of shows and episodes; shows with some
\* indexes missing; mapping rows; one episode with every choice of its fields;
\* one show with every choice of its fields; rows with NULL keys
SanityStores ==
    NullKeyStores \cup
    { [db |-> CurrentStore, rows |-> [shows |-> s, eps |-> e, maps |-> {}, tmp |-> {}]] :
        s \in ShowTables, e \in EpisodeTables }
    \cup { [db |-> StoreWithIndexesOf(t), rows |-> [shows |-> s, eps |-> {}, maps |-> {}, tmp |-> {}]] :
             s \in ShowTables, t \in SUBSET {"tv_shows", "tv_episodes"} }
    \cup { [db |-> CurrentStore, rows |-> [shows |-> {}, eps |-> {}, maps |-> m, tmp |-> {}]] :
             m \in SUBSET MappingRows }
    \cup { [db |-> CurrentStore,
            rows |-> [shows |-> { Show(1, 1) },
                      eps |-> { [Episode(1, k, n) EXCEPT !.airdate = a, !.status = st,
                                                         !.location = l, !.subtitles = sub] },
                      maps |-> {}, tmp |-> {}]] :
             k \in IndexerIds, n \in Seasons, a \in Airdates, st \in EpisodeStatuses,
             l \in {"", "f"}, sub \in {"", "en"} }
    \cup { [db |-> CurrentStore,
            rows |-> [shows |-> { [Show(1, 1) EXCEPT !.status = st, !.lang = l] },
                      eps |-> {}, maps |-> {}, tmp |-> {}]] :
             st \in ShowStatuses, l \in {"0", "en"} }

\* the variables of the migration chains, which the sanity check and the
\* functions of the config migration leave alone
idleVars == <<cls, pc, todo, runNo, started, completed, backups, step, runStart, prev, chain, cfg>>

\* no migration chain is being followed
ChainsIdle ==
    /\ cls = 1 /\ pc = "test" /\ todo = <<>> /\ runNo = 1
    /\ started = <<>> /\ completed = <<>> /\ backups = <<>> /\ step = NoStep
    /\ prev = [status |-> "none", last |-> 0, boundary |-> FALSE, start |-> FreshStore,
               at |-> 1, rows |-> NoRows]
    /\ cfg = ConfigMigrator(Stored(CONFIG_VERSION))

\* the sanity check is followed either through one call of check() or through
\* calls of single routines
SanityInit ==
    /\ chain = "sanity"
    /\ \E s \in SanityStores : db = s.db /\ rows = s.rows
    /\ san \in { [NoSanity EXCEPT !.mode = m, !.pc = 1] : m \in {"check", "calls"} }
    /\ call = NoCall
    /\ status = "running"
    /\ runStart = db
    /\ ChainsIdle

\* MainSanityCheck.check: the call of the next routine of its list; an
\* exception of the routine leaves check()
Check ==
    /\ chain = "sanity" /\ san.mode = "check" /\ status = "running"
    /\ \E ioError \in BOOLEAN : \E o \in Routine(Routines[san.pc], db, rows) :
         /\ san' = [san EXCEPT !.ran = Append(@, Routines[san.pc]),
                               !.hist = Append(@, [db |-> db, rows |-> rows]),
                               !.pc = IF ioError \/ o.raised THEN @ ELSE @ + 1,
                               !.fault = ioError]
         /\ IF ioError THEN UNCHANGED <<db, rows>> ELSE db' = o.db /\ rows' = o.rows
         /\ status' = IF ioError \/ o.raised THEN "raised"
                      ELSE IF san.pc = Len(Routines) THEN "done" ELSE "running"
    /\ UNCHANGED <<idleVars, call>>

\* one routine of MainSanityCheck is called on the store as it is, and after
\* it a second one (the same or another)
CallRoutine ==
    /\ chain = "sanity" /\ san.mode = "calls" /\ status = "running"
    /\ Len(san.ran) < 2
    /\ \E i \in 1..Len(Routines) : \E o \in Routine(Routines[i], db, rows) :
         /\ san' = [san EXCEPT !.ran = Append(@, Routines[i]),
                               !.hist = Append(@, [db |-> db, rows |-> rows])]
         /\ db' = o.db /\ rows' = o.rows
    /\ UNCHANGED <<status, idleVars, call>>

SanityNext ==
    \/ Check
    \/ CallRoutine

SanitySpec == SanityInit /\ [][SanityNext]_vars

\* ------------------------------------------------------------ the config steps
\* the reads of the config object a step makes, in order: through
\* check_setting_int / check_setting_str ("soft"), by self.config_obj[s][k]
\* ("hard"), or by self.config_obj[s][k] inside try ... except KeyError ("try")
Reads(kind, sec, keys) == [i \in 1..Len(keys) |-> [sec |-> sec, key |-> keys[i], kind |-> kind]]

_migrate_v1_reads ==
    Reads("soft", "General",
          << "naming_use_periods", "naming_ep_type", "naming_sep_type", "naming_quality",
             "naming_show_name", "naming_ep_name", "naming_dates", "naming_multi_ep_type",
             "season_folders_format" >>)

_migrate_v3_reads == Reads("soft", "omgwtfnzbs", << "omgwtfnzbs_uid", "omgwtfnzbs_key" >>)

_migrate_v4_reads == Reads("soft", "Newznab", << "newznab_data" >>)

_migrate_v5_reads ==
    Reads("soft", "General",
          << "metadata_xbmc", "metadata_xbmc_12plus", "metadata_mediabrowser", "metadata_ps3",
             "metadata_wdtv", "metadata_tivo", "metadata_mede8er", "use_banner" >>)

_migrate_v6_reads ==
    Reads("soft", "XBMC",
          << "use_xbmc", "xbmc_always_on", "xbmc_notify_onsnatch", "xbmc_notify_ondownload",
             "xbmc_notify_onsubtitledownload", "xbmc_update_library", "xbmc_update_full",
             "xbmc_update_onlyfirst", "xbmc_host", "xbmc_username", "xbmc_password" >>)
    \o Reads("soft", "General", << "metadata_xbmc", "metadata_xbmc_12plus" >>)

_migrate_v8_reads ==
    Reads("soft", "Plex", << "plex_host", "plex_username", "plex_password", "use_plex" >>)

\* lines 415-450: convert_csv_string_to_list(self.config_obj[...][...]);
\* lines 452-476: the two try ... except KeyError blocks
_migrate_v10_reads ==
    Reads("hard", "General",
          << "git_reset_branches", "allowed_extensions", "provider_order", "root_dirs",
             "sync_files", "ignore_words", "preferred_words", "undesired_words",
             "trackers_list", "require_words", "ignored_subs_list", "broken_providers",
             "extra_scripts", "metadata_kodi", "metadata_kodi_12plus",
             "metadata_mediabrowser", "metadata_ps3", "metadata_wdtv", "metadata_tivo",
             "metadata_mede8er" >>)
    \o Reads("hard", "Subtitles",
             << "subtitles_languages", "SUBTITLES_SERVICES_LIST", "SUBTITLES_SERVICES_ENABLED" >>)
    \o Reads("hard", "KODI", << "kodi_host" >>)
    \o Reads("hard", "Plex", << "plex_server_host", "plex_client_host" >>)
    \o Reads("hard", "Prowl", << "prowl_api" >>)
    \o Reads("hard", "Pushover", << "pushover_device" >>)
    \o Reads("hard", "NMA", << "nma_api" >>)
    \o Reads("hard", "Email", << "email_list" >>)
    \o Reads("try", "TorrentRss", << "torrentrss_data" >>)
    \o Reads("try", "Newznab", << "newznab_data" >>)

\* the reads of _migrate_v<n>; _migrate_v2, _migrate_v7 and _migrate_v9 read nothing
StepReads(n) ==
    CASE n = 1  -> _migrate_v1_reads
      [] n = 3  -> _migrate_v3_reads
      [] n = 4  -> _migrate_v4_reads
      [] n = 5  -> _migrate_v5_reads
      [] n = 6  -> _migrate_v6_reads
      [] n = 8  -> _migrate_v8_reads
      [] n = 10 -> _migrate_v10_reads
      [] OTHER  -> <<>>

KeyOf(r) == << r.sec, r.key >>

\* the step's reads on a config object (the set of its keys): a soft read of
\* an absent key returns the default and writes it into the object, a hard
\* read raises KeyError, a read inside try ... except KeyError sets the default
RECURSIVE RunReads(_, _)
RunReads(reads, acc) ==
    IF reads = <<>> THEN acc
    ELSE IF KeyOf(Head(reads)) \in acc.obj THEN RunReads(Tail(reads), acc)
    ELSE CASE Head(reads).kind = "soft" ->
                RunReads(Tail(reads), [acc EXCEPT !.obj = @ \cup { KeyOf(Head(reads)) },
                                                  !.defaults = @ \cup { KeyOf(Head(reads)) }])
           [] Head(reads).kind = "try" ->
                RunReads(Tail(reads), [acc EXCEPT !.defaults = @ \cup { KeyOf(Head(reads)) }])
           [] OTHER -> [acc EXCEPT !.raised = TRUE]

\* _migrate_v<n>() on the config object obj
_migrate_v(n, obj) == RunReads(StepReads(n), [obj |-> obj, defaults |-> {}, raised |-> FALSE])

\* the keys a step reads, and those of one section
StepKeys(n) == { KeyOf(StepReads(n)[i]) : i \in 1..Len(StepReads(n)) }

SectionKeys(n, sec) == { k \in StepKeys(n) : k[1] = sec }

\* the config objects a step is run on: up to MaxAbsent of its keys are
\* absent (UpTo: the sets of up to k of the keys), or a whole section is
RECURSIVE UpTo(_, _)
UpTo(keys, k) ==
    IF k = 0 THEN { {} }
    ELSE UpTo(keys, k - 1) \cup { g \cup { x } : g \in UpTo(keys, k - 1), x \in keys }

StepObjects(n) ==
    { StepKeys(n) \ gone : gone \in UpTo(StepKeys(n), MaxAbsent) }
    \cup { StepKeys(n) \ SectionKeys(n, k[1]) : k \in StepKeys(n) }

StepInit ==
    /\ chain = "step"
    /\ \E n \in 1..CONFIG_VERSION : \E obj \in StepObjects(n) :
         call = [fn |-> "_migrate_v", arg |-> [n |-> n, obj |-> obj], out |-> <<>>, pc |-> "call"]
    /\ db = FreshStore /\ rows = NoRows /\ san = NoSanity
    /\ status = "running" /\ runStart = db
    /\ ChainsIdle

\* getattr(self, '_migrate_v' + str(next_version))()
MigrateStep ==
    /\ chain = "step" /\ call.pc = "call"
    /\ LET o == _migrate_v(call.arg.n, call.arg.obj)
       IN  /\ call' = [call EXCEPT !.out = o, !.pc = "done"]
           /\ status' = IF o.raised THEN "raised" ELSE "done"
    /\ UNCHANGED <<db, rows, san, idleVars>>

StepNext == MigrateStep

StepSpec == StepInit /\ [][StepNext]_vars

\* ------------------------------------------------------------ the naming pattern
\* strings are sequences of characters
\* _name_to_pattern, lines 149-152: naming_ep_type, indexed from 0
naming_ep_type ==
    << << "%", "S", "x", "%", "0", "E" >>,
       << "s", "%", "0", "S", "e", "%", "0", "E" >>,
       << "S", "%", "0", "S", "E", "%", "0", "E" >>,
       << "%", "0", "S", "x", "%", "0", "E" >> >>

\* config.naming_sep_type, indexed from 0
naming_sep_type == << << " ", "-", " " >>, << " " >> >>

\* the characters \s matches
Whitespace == { " " }

RECURSIVE lstrip(_)
lstrip(s) == IF s # <<>> /\ Head(s) \in Whitespace THEN lstrip(Tail(s)) ELSE s

\* re.sub as a bug would have it: count=1, only the first run is replaced
RECURSIVE re_sub_whitespace_Once(_)
re_sub_whitespace_Once(s) ==
    IF s = <<>> THEN <<>>
    ELSE IF Head(s) \in Whitespace THEN << "." >> \o lstrip(Tail(s))
    ELSE << Head(s) >> \o re_sub_whitespace_Once(Tail(s))

\* re.sub(r'\s+', '.', s)
RECURSIVE re_sub_whitespace(_)
re_sub_whitespace(s) ==
    IF s = <<>> THEN <<>>
    ELSE IF Head(s) \in Whitespace THEN << "." >> \o re_sub_whitespace(lstrip(Tail(s)))
    ELSE << Head(s) >> \o re_sub_whitespace(Tail(s))

\* _name_to_pattern(abd) on the settings f read from the config
_name_to_pattern(f, abd) ==
    LET show_name  == IF f.use_periods THEN << "%", "S", ".", "N" >> ELSE << "%", "S", "N" >>
        ep_name    == IF f.use_periods THEN << "%", "E", ".", "N" >> ELSE << "%", "E", "N" >>
        ep_quality == IF f.use_periods THEN << "%", "Q", ".", "N" >> ELSE << "%", "Q", "N" >>
        abd_string == IF f.use_periods THEN << "%", "A", ".", "D" >> ELSE << "%", "A", "-", "D" >>
        ep_string  == IF abd THEN abd_string ELSE naming_ep_type[f.ep_type + 1]
        sep        == naming_sep_type[f.sep_type + 1]
        finalName  == (IF f.use_show_name THEN show_name \o sep ELSE <<>>)
                      \o ep_string
                      \o (IF f.use_ep_name THEN sep \o ep_name ELSE <<>>)
                      \o (IF f.use_quality THEN sep \o ep_quality ELSE <<>>)
    IN  IF f.use_periods THEN re_sub_whitespace(finalName) ELSE finalName

\* the legacy naming settings of the [General] section
NamingSettings ==
    [ use_periods : BOOLEAN, ep_type : 0..3, sep_type : 0..1, use_quality : BOOLEAN,
      use_show_name : BOOLEAN, use_ep_name : BOOLEAN ]

NamingInit ==
    /\ chain = "naming"
    /\ \E f \in NamingSettings : \E abd \in BOOLEAN :
         call = [fn |-> "_name_to_pattern", arg |-> [f |-> f, abd |-> abd],
                 out |-> <<>>, pc |-> "call"]
    /\ db = FreshStore /\ rows = NoRows /\ san = NoSanity
    /\ status = "running" /\ runStart = db
    /\ ChainsIdle

\* _migrate_v1: app.NAMING_PATTERN = self._name_to_pattern(),
\* app.NAMING_ABD_PATTERN = self._name_to_pattern(True)
NameToPattern ==
    /\ chain = "naming" /\ call.pc = "call"
    /\ call' = [call EXCEPT !.out = _name_to_pattern(call.arg.f, call.arg.abd), !.pc = "done"]
    /\ UNCHANGED <<db, rows, san, status, idleVars>>

NamingNext == NameToPattern

NamingSpec == NamingInit /\ [][NamingNext]_vars

\* ------------------------------------------------------------ the metadata step
\* metadata.split('|')
RECURSIVE split(_)
split(s) ==
    IF s = <<>> THEN << <<>> >>
    ELSE IF Head(s) = "|" THEN << <<>> >> \o split(Tail(s))
    ELSE LET rest == split(Tail(s))
         IN  << << Head(s) >> \o Head(rest) >> \o Tail(rest)

\* '|'.join(cur_metadata)
RECURSIVE join(_)
join(slots) ==
    IF slots = <<>> THEN <<>>
    ELSE IF Len(slots) = 1 THEN Head(slots)
    ELSE Head(slots) \o << "|" >> \o join(Tail(slots))

\* lines 274-277 as a bug would have them: one append missing
widen_TwoAppends(cur) ==
    << cur[1], cur[2], cur[3], cur[4], << "0" >>, cur[5], cur[6], << "0" >>, << "0" >> >>

\* lines 274-277: cur_metadata.insert(4, '0') and three times cur_metadata.append('0')
widen(cur) ==
    << cur[1], cur[2], cur[3], cur[4], << "0" >>, cur[5], cur[6], << "0" >>, << "0" >>, << "0" >> >>

\* line 279 as a bug would have it: the two slots left where they were
swap_None(cur) == cur

\* line 279: cur_metadata[3], cur_metadata[2] = cur_metadata[2], cur_metadata[3]
swap(cur) == [cur EXCEPT ![4] = cur[3], ![3] = cur[4]]

\* lines 281-282 as a bug would have them: the name is not looked at
banner_override_AnyName(cur, metadata_name, use_banner) ==
    IF use_banner
    THEN [cur EXCEPT ![5] = cur[4], ![4] = << "0" >>]
    ELSE cur

\* lines 281-282: cur_metadata[4], cur_metadata[3] = cur_metadata[3], '0'
banner_override(cur, metadata_name, use_banner) ==
    IF metadata_name = "XBMC" /\ use_banner
    THEN [cur EXCEPT ![5] = cur[4], ![4] = << "0" >>]
    ELSE cur

\* '0|0|0|0|0|0|0|0|0|0'
ZeroMetadata == join([i \in 1..10 |-> << "0" >>])

_migrate_metadata(metadata, metadata_name, use_banner) ==
    LET cur_metadata == split(metadata)
    IN  IF Len(cur_metadata) = 6
        THEN join(banner_override(swap(widen(cur_metadata)), metadata_name, use_banner))
        ELSE IF Len(cur_metadata) = 10 THEN join(cur_metadata)
        ELSE ZeroMetadata

\* the metadata values of the config: 1..MaxSlots slots of '0' or '1', and the empty string
MetadataValues ==
    { <<>> } \cup
    UNION { { join(f) : f \in [1..n -> { << "0" >>, << "1" >> }] } : n \in 1..MaxSlots }

MetadataNames == { "XBMC", "XBMC 12+", "PS3" }

MetadataInit ==
    /\ chain = "metadata"
    /\ \E v \in MetadataValues : \E name \in MetadataNames : \E use_banner \in BOOLEAN :
         call = [fn |-> "_migrate_metadata",
                 arg |-> [metadata |-> v, metadata_name |-> name, use_banner |-> use_banner],
                 out |-> <<>>, pc |-> "call", kodi |-> <<>>]
    /\ db = FreshStore /\ rows = NoRows /\ san = NoSanity
    /\ status = "running" /\ runStart = db
    /\ ChainsIdle

\* _migrate_v5: app.METADATA_... = _migrate_metadata(metadata_..., name, use_banner),
\* and the function applied once more to the value it returned
MigrateMetadata ==
    /\ chain = "metadata" /\ Len(call.out) < 2
    /\ LET metadata == IF call.out = <<>> THEN call.arg.metadata ELSE call.out[1]
       IN  call' = [call EXCEPT
                      !.out = Append(@, _migrate_metadata(metadata, call.arg.metadata_name,
                                                          call.arg.use_banner)),
                      !.pc = "done"]
    /\ UNCHANGED <<db, rows, san, status, idleVars>>

\* check_setting_str on a key of the section General of the config object: its
\* value, or def_val when the key is missing
check_setting_str(config, item_name, def_val) ==
    IF item_name \in DOMAIN config THEN config[item_name] ELSE def_val

\* _migrate_v6, line 324, in the run that called _migrate_v5: app.METADATA_KODI is
\* read from self.config_obj, in which metadata_xbmc is what it was before
\* _migrate_v5 (the step assigned its result to app.METADATA_XBMC only)
MigrateKodi ==
    /\ chain = "metadata" /\ call.arg.metadata_name = "XBMC"
    /\ Len(call.out) = 1 /\ call.kodi = <<>>
    /\ LET config_obj == [metadata_xbmc |-> call.arg.metadata]
       IN  call' = [call EXCEPT
                      !.kodi = << check_setting_str(config_obj, "metadata_xbmc", ZeroMetadata) >>]
    /\ UNCHANGED <<db, rows, san, status, idleVars>>

MetadataNext ==
    \/ MigrateMetadata
    \/ MigrateKodi

MetadataSpec == MetadataInit /\ [][MetadataNext]_vars

\* ------------------------------------------------------------ the provider lists
\* a field without a separator in it is one token of the string
\* data.split('!!!')
RECURSIVE split_bang(_)
split_bang(s) ==
    LET found == { i \in 1..(Len(s) - 2) : SubSeq(s, i, i + 2) = << "!", "!", "!" >> }
        first == CHOOSE i \in found : \A j \in found : i <= j
    IN  IF found = {} THEN << s >>
        ELSE << SubSeq(s, 1, first - 1) >> \o split_bang(SubSeq(s, first + 3, Len(s)))

\* '!!!'.join(new_newznab_data)
RECURSIVE join_bang(_)
join_bang(items) ==
    IF items = <<>> THEN <<>>
    ELSE IF Len(items) = 1 THEN Head(items)
    ELSE Head(items) \o << "!", "!", "!" >> \o join_bang(Tail(items))

\* _migrate_v4, lines 211-228: the new descriptor of one old one, or none (continue)
newznab_provider(cur_provider_data) ==
    LET f == split(cur_provider_data)
    IN  IF Len(f) # 4 THEN <<>>
        ELSE LET name    == f[1]
                 key     == IF name = << "Sick Beard Index" >> THEN << "0" >> ELSE f[3]
                 cat_ids == IF name = << "NZBs.org" >> THEN << "5030,5040,5060,5070,5090" >>
                            ELSE << "5030,5040,5060" >>
             IN  << join(<< name, f[2], key, cat_ids, f[4] >>) >>

RECURSIVE newznab_providers(_)
newznab_providers(list) ==
    IF list = <<>> THEN <<>>
    ELSE newznab_provider(Head(list)) \o newznab_providers(Tail(list))

\* _migrate_v4 on the value of newznab_data: what app.NEWZNAB_DATA is set to, if it is
_migrate_v4(old_newznab_data) ==
    IF old_newznab_data = <<>>
    THEN [raised |-> "", set |-> FALSE, out |-> <<>>]
    ELSE [raised |-> "", set |-> TRUE,
          out |-> join_bang(newznab_providers(split_bang(old_newznab_data)))]

\* str.upper() on the names of the model
upper(name) == [i \in 1..Len(name) |-> IF name[i] = "a" THEN "A" ELSE name[i]]

\* get_providers_from_data, line 351
get_providers_from_data(providers_string) ==
    LET providers == SelectSeq(split_bang(providers_string), LAMBDA p : p # <<>>)
    IN  [i \in 1..Len(providers) |-> upper(split(providers[i])[1])]

\* the TorrentRssProvider that make_rss_torrent_provider builds
TorrentRssProvider(name, url, cookies, title_tag, enabled) ==
    [kind |-> "provider", name |-> name, url |-> url, cookies |-> cookies,
     title_tag |-> title_tag, enabled |-> (enabled = << "1" >>)]

\* make_rss_torrent_provider: a provider, None, or the exception that leaves it
make_rss_torrent_provider(config) ==
    IF config = <<>> THEN [kind |-> "None"]
    ELSE LET values == split(config)
         IN  IF Len(values) \in {9, 10}
             THEN TorrentRssProvider(values[1], values[2], values[3], values[4], values[5])
             ELSE IF Len(values) = 8
             THEN TorrentRssProvider(values[1], values[2], values[3], << "title" >>, values[4])
             ELSE IF Len(values) < 5 THEN [kind |-> "IndexError"]
             ELSE TorrentRssProvider(values[1], values[2], <<>>, << "title" >>, values[5])

\* get_rss_torrent_providers_list, lines 366-371, as a bug would have it: no name is remembered
RECURSIVE providers_set_SeenNothing(_, _)
providers_set_SeenNothing(providers_list, seen_values) ==
    IF providers_list = <<>> THEN <<>>
    ELSE << Head(providers_list) >> \o providers_set_SeenNothing(Tail(providers_list), seen_values)

\* get_rss_torrent_providers_list, lines 366-371: the loop over providers_list
RECURSIVE providers_set(_, _)
providers_set(providers_list, seen_values) ==
    IF providers_list = <<>> THEN <<>>
    ELSE IF Head(providers_list).name \notin seen_values
         THEN << Head(providers_list) >>
              \o providers_set(Tail(providers_list), seen_values \cup { Head(providers_list).name })
    ELSE providers_set(Tail(providers_list), seen_values)

get_rss_torrent_providers_list(data) ==
    LET configs == split_bang(data)
        made == [i \in 1..Len(configs) |-> make_rss_torrent_provider(configs[i])]
        providers_list == SelectSeq(made, LAMBDA p : p.kind # "None")
    IN  IF \E i \in 1..Len(made) : made[i].kind = "IndexError"
        THEN [raised |-> "IndexError", set |-> FALSE, out |-> <<>>]
        ELSE [raised |-> "", set |-> TRUE, out |-> providers_set(providers_list, {})]

\* the i-th descriptor of a list: n fields, the first the name, the second a
\* url that tells the descriptors apart, '1' in the others; no fields: ''
Descriptor(name, i, n) ==
    [k \in 1..n |-> IF k = 1 THEN << name >> ELSE IF k = 2 THEN << "u", ToString(i) >>
                    ELSE << "1" >>]

NewznabNames == { "Sick Beard Index", "NZBs.org", "A" }
NewznabFieldCounts == { 0, 3, 4, 5 }
RssNames == { "A", "a" }
RssFieldCounts == { 0, 4, 5, 8, 9, 10, 11 }

\* the lists of up to MaxProviders descriptors: the one that f chooses
DescriptorList(f) == [i \in 1..Len(f) |-> Descriptor(f[i][1], i, f[i][2])]

DescriptorChoices(names, counts) ==
    UNION { [1..m -> names \X counts] : m \in 0..MaxProviders }

\* the string a list of descriptors is stored as
ProviderData(descs) == join_bang([i \in 1..Len(descs) |-> join(descs[i])])

ProviderInit ==
    /\ chain = "providers"
    /\ \/ \E f \in DescriptorChoices(NewznabNames, NewznabFieldCounts) :
            call = [fn |-> "_migrate_v4",
                    arg |-> [descs |-> DescriptorList(f), data |-> ProviderData(DescriptorList(f))],
                    out |-> <<>>, pc |-> "call"]
       \/ \E f \in DescriptorChoices(RssNames, RssFieldCounts) :
            call = [fn |-> "get_rss_torrent_providers_list",
                    arg |-> [descs |-> DescriptorList(f), data |-> ProviderData(DescriptorList(f))],
                    out |-> <<>>, pc |-> "call"]
    /\ db = FreshStore /\ rows = NoRows /\ san = NoSanity
    /\ status = "running" /\ runStart = db
    /\ ChainsIdle

\* _migrate_v4 on the newznab_data of the config
MigrateNewznab ==
    /\ chain = "providers" /\ call.pc = "call" /\ call.fn = "_migrate_v4"
    /\ call' = [call EXCEPT !.out = _migrate_v4(call.arg.data), !.pc = "done"]
    /\ status' = "done"
    /\ UNCHANGED <<db, rows, san, idleVars>>

\* _migrate_v10, lines 452-462: the try block on torrentrss_data, which sets
\* app.TORRENTRSS_PROVIDERS (ids) and then app.torrentRssProviderList (out); only
\* KeyError is caught
MigrateTorrentRss ==
    /\ chain = "providers" /\ call.pc = "call" /\ call.fn = "get_rss_torrent_providers_list"
    /\ LET ids == get_providers_from_data(call.arg.data)
           o   == get_rss_torrent_providers_list(call.arg.data)
       IN  /\ call' = [call EXCEPT !.out = [raised |-> o.raised, set |-> o.set, out |-> o.out,
                                            ids |-> ids],
                                   !.pc = "done"]
           /\ status' = IF o.raised # "" THEN "raised" ELSE "done"
    /\ UNCHANGED <<db, rows, san, idleVars>>

ProviderNext ==
    \/ MigrateNewznab
    \/ MigrateTorrentRss

ProviderSpec == ProviderInit /\ [][ProviderNext]_vars

\* ------------------------------------------------------------ claims
CurrentVersion == << MAX_DB_VERSION, CURRENT_MINOR_DB_VERSION >>

\* a store with a db_version row
HasLedger(d) == hasTable(d, "db_version") /\ d.row

\* a fresh store, or a store whose ledger major is in MIN_DB_VERSION..MAX_DB_VERSION
SupportedStart(d) ==
    \/ d = FreshStore
    \/ HasLedger(d) /\ d.major \in MIN_DB_VERSION..MAX_DB_VERSION

Last(q) == q[Len(q)]

\* C1: a run of the chain that starts on a fresh store or on a store whose
\* ledger major is in 40..44, and in which no backup and no statement fails,
\* ends with the ledger at (MAX_DB_VERSION, CURRENT_MINOR_DB_VERSION).
C1_ChainReachesCurrent ==
    (chain = "db" /\ status = "done" /\ SupportedStart(runStart))
        => version(db) = CurrentVersion

\* C2: no step of the program lowers the ledger: the (major, minor) pair after
\* any statement is lexicographically at least the pair before it.
C2_LedgerMonotonic ==
    [][VersionGE(version(db'), version(db))]_vars

\* C2, its case: inc_major_version has reset a minor above 0 inside TestIncreaseMajorVersion
C2_Witness ==
    /\ status = "running" /\ pc = "execute"
    /\ Chain[cls] = "TestIncreaseMajorVersion"
    /\ Len(todo) = 1
    /\ version(step.store)[2] > 0
    /\ version(db) = << version(step.store)[1] + 1, 0 >>

\* C3: after a complete run from a supported start, the next run begins no
\* execute(), takes no backup and leaves the store as it found it.
C3_SecondRunIsNoOp ==
    (chain = "db" /\ prev.status = "done" /\ SupportedStart(prev.start))
        => (started = <<>> /\ backups = <<>> /\ db = runStart)

\* C4: when the process was killed between two steps, after step N had
\* completed, the restarted run begins execute() only for steps after N.
C4_CrashResume ==
    (chain = "db" /\ prev.status = "crashed" /\ prev.boundary /\ prev.last > 0
       /\ SupportedStart(prev.start))
        => \A i \in 1..Len(started) : started[i] > prev.last

\* C5: a run that finds a ledger major above MAX_DB_VERSION does not complete:
\* it ends in a fatal abort.
C5_TooNewAborts ==
    (chain = "db" /\ HasLedger(runStart) /\ checkDBVersion(runStart) > MAX_DB_VERSION)
        => status # "done"

\* C6: a run that finds a ledger major above MAX_DB_VERSION begins no
\* execute(), takes no backup and leaves store and ledger unchanged.
C6_TooNewNotMutated ==
    (chain = "db" /\ HasLedger(runStart) /\ checkDBVersion(runStart) > MAX_DB_VERSION)
        => (started = <<>> /\ backups = <<>> /\ db = runStart)

\* C7: a run that finds a ledger major below MIN_DB_VERSION begins no
\* execute(), leaves the store unchanged and does not complete.
C7_TooOldAbortsUnmutated ==
    (chain = "db" /\ HasLedger(runStart) /\ checkDBVersion(runStart) < MIN_DB_VERSION)
        => (started = <<>> /\ db = runStart /\ status # "done")

\* C8: every execution of a step after InitialSchema calls backupDatabase
\* exactly once, before its first mutating statement and its ledger write,
\* and the label is the ledger value the step found.
C8_BackupBeforeMutate ==
    (chain = "db" /\ started # <<>> /\ Last(started) > 1)
        => /\ ~step.early
           /\ step.backups <= 1
           /\ (pc = "test" \/ Head(todo).op # "backup") => step.backups = 1
           /\ step.backups = 1 =>
                /\ step.label[1] = version(step.store)[1]
                /\ Len(step.label) = 2 => step.label[2] = version(step.store)[2]

\* C8, its case: the last step of the chain has completed with its one backup
C8_Witness ==
    /\ chain = "db" /\ pc = "test" /\ completed # <<>>
    /\ Chain[Last(completed)] = "AddIndexerInteger"
    /\ step.backups = 1 /\ db # step.store
    /\ Last(backups) = [cls |-> Len(Chain), label |-> version(step.store)]

\* C9: when the backup that opens a step fails, in either chain, the run is
\* over, nothing of the step's transform has run, and the persisted version
\* is what it was before the step.
C9_BackupFailureIsFatal ==
    /\ (chain = "db" /\ step.failed) =>
          /\ status = "exit"
          /\ db = step.store
          /\ Last(started) = cls
          /\ \A i \in 1..Len(completed) : completed[i] # cls
          /\ todo = execute(cls, step.store)
    /\ (chain = "config" /\ cfg.failed) =>
          /\ status = "exit"
          /\ cfg.file = IF cfg.steps = <<>> THEN cfg.read ELSE Stored(cfg.version)
          /\ \A i \in 1..Len(cfg.steps) : cfg.steps[i] <= cfg.version

\* C9, its case: the backup of a step after the first has failed
C9_Witness ==
    /\ chain = "db" /\ step.failed /\ status = "exit"
    /\ Chain[cls] = "AddProperTags" /\ completed # <<>>

\* C10: when a statement of a step's execute() raises, the ledger is the
\* value it had when that step began.
C10_FailureKeepsLastGoodVersion ==
    (chain = "db" /\ status = "raised") => version(db) = version(step.store)

\* the store a step leaves when every statement of its execute() has run
RECURSIVE ApplyAll(_, _)
ApplyAll(ops, d) ==
    IF ops = <<>> THEN d
    ELSE ApplyAll(Tail(ops), IF Head(ops).op \in {"backup", "checkVersionRange"}
                             THEN d ELSE Apply(Head(ops), d))

\* C11: when the process is killed inside a step's execute(), the store is
\* either exactly the store the step found or exactly the store the completed
\* step leaves (transform and ledger write), never one in between.
C11_StepAtomicUnderCrash ==
    (chain = "db" /\ status = "crashed" /\ pc = "execute")
        => \/ db = step.store
           \/ db = ApplyAll(execute(cls, step.store), step.store)

\* the steps InitialSchema's version-42 schema already contains
SchemaSteps == { c \in 1..Len(Chain) : Chain[c] \in
                   {"AddVersionToTvEpisodes", "AddDefaultEpStatusToTvShows",
                    "AlterTVShowsFieldTypes"} }

\* C12: in a run that starts on a store with neither tv_shows nor db_version,
\* InitialSchema.execute runs and no later step of the chain begins execute().
C12_FreshRunsNoIncrementalStep ==
    (chain = "db" /\ runStart = FreshStore)
        => \A i \in 1..Len(started) : started[i] = 1

\* C12 as amended: in such a run InitialSchema.execute creates the schema of
\* version 42, the steps up to AlterTVShowsFieldTypes never execute, and a
\* completed run has executed every step from AddMinorVersion on, in order.
C12_FreshRunsStepsAfter42 ==
    (chain = "db" /\ runStart = FreshStore)
        => /\ \A i \in 1..Len(started) : started[i] \notin SchemaSteps
           /\ started # <<>> => started[1] = 1
           /\ (started = <<1>> /\ completed = <<1>>) =>
                 /\ db.tabs = BaseTables \cup {"db_version"}
                 /\ db.idx = RequiredIndexes
                 /\ version(db) = << FRESH_DB_VERSION, 0 >>
           /\ status = "done" =>
                 started = <<1>> \o [i \in 1..(Len(Chain) - 4) |-> i + 4]

\* C12, its case: the run on a fresh store has completed
C12_Witness ==
    /\ chain = "db" /\ runStart = FreshStore /\ status = "done"
    /\ Len(started) = Len(Chain) - 3
    /\ hasTable(db, "tv_shows") /\ hasColumn(db, "db_version", "db_minor_version")

\* the store as one record
Store == [db |-> db, rows |-> rows]

\* C13: when a routine called by MainSanityCheck.check raises, every other
\* routine of the list is still called in that pass: a pass that is over,
\* however it ended, has called all of them.
C13_FailureIsolated ==
    (chain = "sanity" /\ san.mode = "check" /\ status # "running")
        => \A i \in 1..Len(Routines) : \E j \in 1..Len(san.ran) : san.ran[j] = Routines[i]

\* the routines C14 names
RepairRoutines ==
    { "fix_duplicate_shows", "fix_duplicate_episodes", "fix_orphan_episodes",
      "fix_unaired_episodes", "fix_episode_statuses", "fix_invalid_airdates",
      "fix_subtitle_reference", "clean_null_indexer_mappings", "fix_missing_table_indexes" }

\* C14: when one of the repair routines has been called twice in a row, the
\* store after the second call is the store after the first call.
C14_RoutineIdempotent ==
    (chain = "sanity" /\ san.mode = "calls" /\ Len(san.ran) = 2
       /\ san.ran[1] = san.ran[2] /\ san.ran[1] \in RepairRoutines)
        => Store = san.hist[2]

\* C14, its case: fix_duplicate_shows deleted a row in its first call and was called again
C14_Witness ==
    /\ chain = "sanity" /\ san.mode = "calls"
    /\ san.ran = << "fix_duplicate_shows", "fix_duplicate_shows" >>
    /\ Cardinality(san.hist[1].rows.shows) > Cardinality(san.hist[2].rows.shows)
    /\ Store = san.hist[2]

\* C15: a call of migrate_config on a stored config_version v <= expected
\* that returns has run exactly the steps v+1 .. expected, each once and in
\* increasing order, and leaves self.config_version and app.CONFIG_VERSION
\* at the expected version.
C15_ConfigChainOrder ==
    (chain = "config" /\ status = "done")
        => /\ cfg.start <= CONFIG_VERSION
           /\ cfg.steps = [i \in 1..(CONFIG_VERSION - cfg.start) |-> cfg.start + i]
           /\ cfg.version = CONFIG_VERSION
           /\ cfg.app = CONFIG_VERSION

\* C15, its case: the whole chain has run from config_version 0
C15_Witness ==
    /\ chain = "config" /\ status = "done" /\ cfg.start = 0
    /\ Len(cfg.steps) = CONFIG_VERSION /\ cfg.steps[1] = 1

\* C16: when the stored config_version is above the expected version,
\* migrate_config does not return: it takes no backup, runs no step and
\* never saves the config, and the process exits at the check.
C16_ConfigTooNewAborts ==
    (chain = "config" /\ cfg.start > CONFIG_VERSION)
        => /\ status \in {"running", "exit", "crashed"}
           /\ cfg.pc = "check"
           /\ cfg.backups = <<>> /\ cfg.steps = <<>> /\ cfg.saves = 0
           /\ cfg.file = Stored(cfg.start) /\ cfg.app = CONFIG_VERSION

\* C16, its case: the process has exited on a config_version above the expected one
C16_Witness ==
    /\ chain = "config" /\ status = "exit" /\ cfg.start = CONFIG_VERSION + 1
    /\ ~cfg.failed

\* C17: every config step, run on a config object that lacks any of the keys
\* or sections it reads, completes without raising, and each setting whose
\* key is absent takes its default.
C17_MissingKeysTolerated ==
    (chain = "step" /\ call.pc = "done")
        => /\ ~call.out.raised
           /\ StepKeys(call.arg.n) \ call.arg.obj \subseteq call.out.defaults

\* the tables of C18: episode tokens and separators, and the separators with
\* every whitespace run replaced by one '.'
C18_EpisodeToken(t) ==
    CASE t = 0 -> << "%", "S", "x", "%", "0", "E" >>
      [] t = 1 -> << "s", "%", "0", "S", "e", "%", "0", "E" >>
      [] t = 2 -> << "S", "%", "0", "S", "E", "%", "0", "E" >>
      [] OTHER -> << "%", "0", "S", "x", "%", "0", "E" >>

C18_Separator(t, periods) ==
    CASE t = 0 /\ ~periods -> << " ", "-", " " >>
      [] t = 0 /\ periods  -> << ".", "-", "." >>
      [] t = 1 /\ ~periods -> << " " >>
      [] OTHER             -> << "." >>

C18_Token(letter, periods) ==
    IF periods THEN << "%", letter, ".", "N" >> ELSE << "%", letter, "N" >>

\* C18: for every choice of the six legacy settings, _name_to_pattern() is
\* [show token + separator] + episode token + [separator + episode-name token]
\* + [separator + quality token]; with use_periods the separators' whitespace
\* runs are single '.', the result holds no whitespace, and the settings of
\* the example give '%S.N.-.s%0Se%0E.-.%E.N'.
C18_NamingPattern ==
    (chain = "naming" /\ call.pc = "done" /\ ~call.arg.abd)
        => LET f   == call.arg.f
               sep == C18_Separator(f.sep_type, f.use_periods)
           IN  /\ call.out =
                     (IF f.use_show_name THEN C18_Token("S", f.use_periods) \o sep ELSE <<>>)
                     \o C18_EpisodeToken(f.ep_type)
                     \o (IF f.use_ep_name THEN sep \o C18_Token("E", f.use_periods) ELSE <<>>)
                     \o (IF f.use_quality THEN sep \o C18_Token("Q", f.use_periods) ELSE <<>>)
               /\ f.use_periods => \A i \in 1..Len(call.out) : call.out[i] # " "
               /\ f = [use_periods |-> TRUE, ep_type |-> 1, sep_type |-> 0, use_quality |-> FALSE,
                       use_show_name |-> TRUE, use_ep_name |-> TRUE]
                    => call.out = << "%", "S", ".", "N", ".", "-", ".", "s", "%", "0", "S", "e",
                                     "%", "0", "E", ".", "-", ".", "%", "E", ".", "N" >>

\* C18, its case: the pattern of the example has been made
C18_Witness ==
    /\ chain = "naming" /\ call.pc = "done" /\ ~call.arg.abd
    /\ call.arg.f.use_periods /\ call.arg.f.ep_type = 1 /\ call.arg.f.sep_type = 0
    /\ call.arg.f.use_show_name /\ call.arg.f.use_ep_name /\ ~call.arg.f.use_quality
    /\ Len(call.out) = 22

\* the number of pipe-separated slots of a string, and its k-th slot
SlotCount(s) == 1 + Cardinality({ i \in 1..Len(s) : s[i] = "|" })

\* C19: _migrate_metadata returns a value of exactly 10 slots; a value of 10
\* slots is returned unchanged; a value whose slot count is neither 6 nor 10
\* is replaced by ten '0' slots; applied to its own result it returns it.
C19_MetadataWidth ==
    (chain = "metadata" /\ call.out # <<>>)
        => /\ SlotCount(call.out[1]) = 10
           /\ SlotCount(call.arg.metadata) = 10 => call.out[1] = call.arg.metadata
           /\ SlotCount(call.arg.metadata) \notin {6, 10} =>
                 call.out[1] = << "0", "|", "0", "|", "0", "|", "0", "|", "0", "|",
                                  "0", "|", "0", "|", "0", "|", "0", "|", "0" >>
           /\ Len(call.out) = 2 => call.out[2] = call.out[1]

\* C19, its case: a 6-slot value was widened, then passed through unchanged
C19_Witness ==
    /\ chain = "metadata" /\ Len(call.out) = 2
    /\ SlotCount(call.arg.metadata) = 6
    /\ call.out[1] # call.arg.metadata /\ call.out[2] = call.out[1]
    /\ \E i \in 1..Len(call.out[2]) : call.out[2][i] = "1"

\* the slots of the value given to the step and of the value it returned
C20_In == split(call.arg.metadata)

C20_Out == split(call.out[1])

\* C20: in the upgrade of a 6-slot value the fanart and poster slots (3 and 4)
\* are exchanged if and only if use_banner is set; with use_banner unset the
\* six legacy slots keep their order.
C20_SwapOnlyWithBanner ==
    (chain = "metadata" /\ call.out # <<>> /\ SlotCount(call.arg.metadata) = 6)
        => IF call.arg.use_banner
           THEN C20_Out[3] = C20_In[4]
           ELSE /\ C20_Out[3] = C20_In[3] /\ C20_Out[4] = C20_In[4]
                /\ C20_Out[1] = C20_In[1] /\ C20_Out[2] = C20_In[2]
                /\ C20_Out[6] = C20_In[5] /\ C20_Out[7] = C20_In[6]

\* C20 as amended: in the upgrade of a 6-slot value slots 3 and 4 are
\* exchanged whatever use_banner is; use_banner matters only for the name
\* 'XBMC', where the exchanged value of slot 4 moves on to the banner slot 5
\* and slot 4 becomes '0'; the other legacy slots keep their order.
C20_SwapAlways ==
    (chain = "metadata" /\ call.out # <<>> /\ SlotCount(call.arg.metadata) = 6)
        => /\ C20_Out[3] = C20_In[4]
           /\ IF call.arg.metadata_name = "XBMC" /\ call.arg.use_banner
              THEN C20_Out[4] = << "0" >> /\ C20_Out[5] = C20_In[3]
              ELSE C20_Out[4] = C20_In[3] /\ C20_Out[5] = << "0" >>
           /\ C20_Out[1] = C20_In[1] /\ C20_Out[2] = C20_In[2]
           /\ C20_Out[6] = C20_In[5] /\ C20_Out[7] = C20_In[6]

\* C20, its case: a value whose slots 3 and 4 differ was upgraded with use_banner unset
C20_Witness ==
    /\ chain = "metadata" /\ Len(call.out) = 1 /\ ~call.arg.use_banner
    /\ SlotCount(call.arg.metadata) = 6
    /\ C20_In[3] = << "1" >> /\ C20_In[4] = << "0" >>
    /\ C20_Out[3] = << "0" >> /\ C20_Out[4] = << "1" >>

\* the descriptors of a list that have fields, and of those the ones whose
\* name no earlier one has
C21_Given(descs) == SelectSeq(descs, LAMBDA f : f # <<>>)

C21_FirstOfName(descs) ==
    { i \in 1..Len(descs) : \A j \in 1..(i - 1) : descs[j][1] # descs[i][1] }

\* C21: on a list of well-formed descriptors get_rss_torrent_providers_list
\* returns at most one provider per name, for each name the provider of its
\* first occurrence, and the retained providers in the order of the list.
C21_ProviderDedup ==
    (chain = "providers" /\ call.fn = "get_rss_torrent_providers_list" /\ call.pc = "done"
       /\ \A i \in 1..Len(call.arg.descs) : Len(call.arg.descs[i]) \in {0, 8, 9, 10})
        => LET given == C21_Given(call.arg.descs)
               out   == call.out.out
               first == C21_FirstOfName(given)
               \* the position in the list of the k-th retained descriptor
               pos(k) == CHOOSE i \in first : Cardinality({ j \in first : j < i }) = k - 1
           IN  /\ call.out.raised = ""
               /\ \A a, b \in 1..Len(out) : out[a].name = out[b].name => a = b
               /\ Len(out) = Cardinality(first)
               /\ \A k \in 1..Len(out) : /\ out[k].name = given[pos(k)][1]
                                         /\ out[k].url = given[pos(k)][2]

\* C21, its case: of three descriptors the first and the third share a name
C21_Witness ==
    /\ chain = "providers" /\ call.fn = "get_rss_torrent_providers_list" /\ call.pc = "done"
    /\ Len(call.arg.descs) = 3
    /\ \A i \in 1..3 : Len(call.arg.descs[i]) \in {8, 9, 10}
    /\ call.arg.descs[1][1] = call.arg.descs[3][1]
    /\ call.arg.descs[1][1] # call.arg.descs[2][1]
    /\ Len(call.out.out) = 2
    /\ call.out.out[1].url = << "u", "1" >> /\ call.out.out[2].url = << "u", "2" >>

\* C22: in the newznab step and in the provider step a descriptor with an
\* unexpected number of fields never aborts the step, and every other
\* descriptor of the list is still processed.
C22_MalformedIsolated ==
    (chain = "providers" /\ call.pc = "done")
        => /\ call.out.raised = ""
           /\ call.fn = "_migrate_v4" =>
                Len(split_bang(call.out.out)) >=
                  Cardinality({ i \in 1..Len(call.arg.descs) : Len(call.arg.descs[i]) = 4 })
           /\ call.fn = "get_rss_torrent_providers_list" =>
                \A i \in 1..Len(call.arg.descs) :
                   Len(call.arg.descs[i]) \in {8, 9, 10} =>
                      \E k \in 1..Len(call.out.out) : call.out.out[k].name = call.arg.descs[i][1]

\* the table each rebuild step rebuilds
RebuildTarget(name) ==
    CASE name = "AlterTVShowsFieldTypes" -> "tv_shows"
      [] name = "AddPKIndexerMapping"    -> "indexer_mapping"
      [] name = "AddIndexerInteger"      -> "tv_episodes"
      [] OTHER                           -> ""

\* the previous run was killed inside execute() of the class of that name, after its backup
CrashedInside(name) ==
    chain = "db" /\ prev.status = "crashed" /\ ~prev.boundary /\ Chain[prev.at] = name

\* the run has stopped in execute() of class c at a statement that sqlite rejects
RaisedIn(c) ==
    status = "raised" /\ pc = "execute" /\ cls = c /\ todo # <<>> /\ Raises(Head(todo), db)

\* C23: when the process was killed between two statements of a rebuild step,
\* the next start runs the step to its end, and the rebuilt table then holds
\* exactly the rows it held before the first attempt.
C23_RebuildReentryKeepsRows ==
    \A name \in { "AlterTVShowsFieldTypes", "AddPKIndexerMapping", "AddIndexerInteger" } :
       CrashedInside(name)
          => /\ ~RaisedIn(prev.at)
             /\ (\E i \in 1..Len(completed) : completed[i] = prev.at)
                   => RowsOf(rows, RebuildTarget(name)) = RowsOf(prev.rows, RebuildTarget(name))

\* C24: when a previous attempt of a column-adding step was killed after it
\* had added some or all of its columns and before its ledger write, the
\* step, run again, completes without an error and advances the ledger.
C24_WideningRerunnable ==
    \A name \in { "AddVersionToTvEpisodes", "AddDefaultEpStatusToTvShows", "AddMinorVersion",
                  "AddProperTags", "AddManualSearched", "AddInfoHash", "AddPlot",
                  "AddResourceSize" } :
       CrashedInside(name)
          => /\ ~RaisedIn(prev.at)
             /\ (cls > prev.at \/ status = "done")
                   => \E i \in 1..Len(completed) : completed[i] = prev.at

\* C25: right after execute() of a step has returned, the step's own test() is true.
C25_PostconditionIsTest ==
    [][(chain = "db" /\ Len(completed') = Len(completed) + 1)
          => test(Last(completed'), db')]_vars

\* the (major, minor) values of the ledger of a store
LedgerValues(d) == version(d)

\* the db_version table of a store: whether it exists, has its row and the
\* db_minor_version column, and the values in it
LedgerTable(d) ==
    << hasTable(d, "db_version"), hasTable(d, "db_version") /\ d.row,
       hasColumn(d, "db_version", "db_minor_version"), version(d) >>

\* stores to compare the store with: the one this run found, the one the
\* running step found, and the store with other tables and columns
OtherStores ==
    { runStart, step.store }
    \cup { [db EXCEPT !.tabs = (@ \cap {"db_version"}) \cup t,
                      !.cols = { p \in @ : p[1] = "db_version" } \cup c,
                      !.idx  = {}] :
             t \in { {}, BaseTables },
             c \in { {}, { <<"history", "proper_tags">>, <<"tv_shows", "plot">> } } }

\* C26: two stores whose ledger (major, minor) values are equal get the same
\* answer from test() of every step, whatever tables and columns they have
\* (checked for each step where the driver has arrived at it).
C26_TestDependsOnLedgerValues ==
    chain = "db" =>
       \A d \in OtherStores :
          LedgerValues(d) = LedgerValues(db) => test(cls, d) = test(cls, db)

\* C26 as amended: two stores whose db_version tables are equal (the table
\* exists in both or in neither, with or without its row and its
\* db_minor_version column, and with the same values) get the same answer
\* from test() of every step, whatever other tables and columns they have
\* (checked for each step where the driver has arrived at it).
C26_TestDependsOnLedgerTable ==
    chain = "db" =>
       LET here   == test(cls, db)
           ledger == LedgerTable(db)
       IN  \A d \in OtherStores : LedgerTable(d) = ledger => test(cls, d) = here

\* C26, its case: inside AddProperTags the column is added and the ledger not
\* yet written, so the store differs from the one the step found in a column only
C26_Witness ==
    /\ chain = "db" /\ status = "running" /\ pc = "execute"
    /\ Chain[cls] = "AddProperTags"
    /\ hasColumn(db, "history", "proper_tags") /\ ~hasColumn(step.store, "history", "proper_tags")
    /\ LedgerTable(db) = LedgerTable(step.store)
    /\ ~test(cls, db)

\* the routine of that name has just returned; Before: the rows it was called on
JustRan(name) ==
    chain = "sanity" /\ san.ran # <<>> /\ Last(san.ran) = name /\ status # "raised"

Before == Last(san.hist).rows

ShowsOfKey(shows, k) == { s \in shows : s.indexer_id = k }

EpisodeKey(e) == << e.showid, e.season, e.episode >>

EpisodesOfKey(eps, k) == { e \in eps : EpisodeKey(e) = k }

\* C27: after fix_duplicate_shows no two tv_shows rows share a non-null
\* indexer_id, after fix_duplicate_episodes no two tv_episodes rows share
\* (showid, season, episode); every key that had a row still has exactly one,
\* and the rows whose key was unique are unchanged.
C27_OneExemplarPerKey ==
    /\ JustRan("fix_duplicate_shows") =>
          /\ rows.shows \subseteq Before.shows
          /\ \A s \in Before.shows :
                IF s.indexer_id = NULL \/ Cardinality(ShowsOfKey(Before.shows, s.indexer_id)) = 1
                THEN s \in rows.shows
                ELSE Cardinality(ShowsOfKey(rows.shows, s.indexer_id)) = 1
          /\ rows.eps = Before.eps /\ rows.maps = Before.maps
    /\ JustRan("fix_duplicate_episodes") =>
          /\ rows.eps \subseteq Before.eps
          /\ \A e \in Before.eps :
                IF e.showid = NULL \/ Cardinality(EpisodesOfKey(Before.eps, EpisodeKey(e))) = 1
                THEN e \in rows.eps
                ELSE Cardinality(EpisodesOfKey(rows.eps, EpisodeKey(e))) = 1
          /\ rows.shows = Before.shows /\ rows.maps = Before.maps

\* C27, its case: fix_duplicate_episodes found two episodes of one key and deleted one
C27_Witness ==
    /\ JustRan("fix_duplicate_episodes")
    /\ Cardinality(Before.eps) = 2 /\ Cardinality(rows.eps) = 1
    /\ \A e, f \in Before.eps : EpisodeKey(e) = EpisodeKey(f)

\* the highest and the lowest of a set of ids
MaxId(ids) == CHOOSE i \in ids : \A j \in ids : j <= i

MinId(ids) == CHOOSE i \in ids : \A j \in ids : i <= j

HasParent(e, shows) == e.showid # NULL /\ \E s \in shows : s.indexer_id = e.showid

\* C29: after fix_orphan_episodes every remaining episode has a showid equal
\* to the indexer_id of some tv_shows row, exactly the episodes without such
\* a row were deleted, and tv_shows is unchanged.
C29_OrphansDeleted ==
    JustRan("fix_orphan_episodes") =>
       /\ \A e \in rows.eps : HasParent(e, rows.shows)
       /\ rows.eps = { e \in Before.eps : HasParent(e, Before.shows) }
       /\ rows.shows = Before.shows

\* C29, its case: of two episodes the one without a show was deleted
C29_Witness ==
    /\ JustRan("fix_orphan_episodes")
    /\ Cardinality(Before.eps) = 2 /\ Cardinality(rows.eps) = 1
    /\ Before.shows # {}

\* C30: after fix_invalid_airdates every episode has an airdate a with
\* 1 <= a < date.max; exactly the episodes whose airdate was below 1 or at or
\* above date.max were set to 1; no row was added or deleted and no other
\* column changed.
C30_AirdatesInRange ==
    JustRan("fix_invalid_airdates") =>
       /\ \A e \in rows.eps : 1 <= e.airdate /\ e.airdate < DateMax
       /\ rows.eps = { IF e.airdate < 1 \/ e.airdate >= DateMax THEN [e EXCEPT !.airdate = 1]
                       ELSE e : e \in Before.eps }
       /\ { e.episode_id : e \in rows.eps } = { e.episode_id : e \in Before.eps }
       /\ Cardinality(rows.eps) = Cardinality(Before.eps)
       /\ rows.shows = Before.shows /\ rows.maps = Before.maps /\ db = Last(san.hist).db

\* C30, its case: an episode with the airdate date.max was given the airdate 1
C30_Witness ==
    /\ JustRan("fix_invalid_airdates")
    /\ \E e \in Before.eps : e.airdate = DateMax
    /\ \A e \in rows.eps : e.airdate = 1

\* the stores a call of the routine `second` can leave after a call of the
\* routine `first` on the store s (an exception of a routine leaves the store as it was)
AfterBoth(first, second, s) ==
    UNION { { [db |-> o2.db, rows |-> o2.rows] : o2 \in Routine(second, o1.db, o1.rows) } :
              o1 \in Routine(first, s.db, s.rows) }

\* C31: for every store and every pair of routines of MainSanityCheck.check,
\* calling the two in either order leaves the same store: what the calls
\* first-then-second left is what second-then-first leaves on the same store.
C31_OrderIndependent ==
    (chain = "sanity" /\ san.mode = "calls" /\ Len(san.ran) = 2)
        => Store \in AfterBoth(san.ran[2], san.ran[1], san.hist[1])

\* C32: when a call of MainSanityCheck.check has completed, a second call
\* right after it completes too and changes nothing: every store it can leave
\* is the store the first call left.
C32_OnePassIsFixpoint ==
    (chain = "sanity" /\ san.mode = "check" /\ status = "done")
        => \A o \in check(db, rows) : ~o.raised /\ o.db = db /\ o.rows = rows

\* the store the call of check() was started on
PassStart == san.hist[1]

\* C33: a call of MainSanityCheck.check on a store whose tv_shows holds two
\* rows with the same indexer_id and that has no index idx_indexer_id, in which
\* no statement fails for a reason outside the store, completes with no two
\* rows of tv_shows sharing an indexer_id and with the index idx_indexer_id.
C33_DuplicatesRepairedWithoutIndex ==
    (/\ chain = "sanity" /\ san.mode = "check" /\ status # "running" /\ ~san.fault
     /\ UniqueViolated(PassStart.rows) /\ ~hasIndex(PassStart.db, "idx_indexer_id"))
        => /\ status = "done"
           /\ ~UniqueViolated(rows)
           /\ hasIndex(db, "idx_indexer_id")

\* the rows of the chain's store as rows of the sanity check: the row with
\* rowid i is a show, an episode or a mapping of its own key, with nothing to repair
RowRecords(r) ==
    [shows |-> { Show(i, i) : i \in r.shows },
     eps   |-> { Episode(i, i, 1) : i \in r.eps },
     maps  |-> { [indexer_id |-> i, mindexer_id |-> "7"] : i \in r.maps },
     tmp   |-> {}]

\* C34: when the chain has completed on a fresh store or on a store whose
\* ledger major is in 40..44, one call of MainSanityCheck.check on the store it
\* left (no two shows share an indexer_id) completes with all six required
\* indexes in the store.
C34_RequiredIndexesAfterStartup ==
    (chain = "db" /\ status = "done" /\ SupportedStart(runStart))
        => \A o \in check(db, RowRecords(rows)) :
              ~o.raised /\ RequiredIndexes \subseteq o.db.idx

\* C34, its case: the chain completed after a rebuild step dropped the table
\* that carried idx_indexer_id, and the call of check() creates the index again
C34_Witness ==
    /\ chain = "db" /\ status = "done" /\ SupportedStart(runStart)
    /\ hasIndex(runStart, "idx_indexer_id")
    /\ ~hasIndex(db, "idx_indexer_id")
    /\ rows.shows # {}
    /\ \A o \in check(db, RowRecords(rows)) : hasIndex(o.db, "idx_indexer_id")

\* the routines of check() that repair a row by an UPDATE
UpdateRoutines ==
    { "fix_unaired_episodes", "fix_indexer_show_statues", "fix_episode_statuses",
      "fix_invalid_airdates", "fix_show_nfo_lang", "convert_archived_to_compound",
      "fix_subtitle_reference" }

\* C35: during one call of MainSanityCheck.check a tv_shows row whose
\* indexer_id no other row had when the call started is still there, so is a
\* tv_episodes row that had a parent show and a (showid, season, episode) of
\* its own, and so is an indexer_mapping row with a non-empty mindexer_id; a
\* routine that repairs status, airdate, subtitles or lang leaves every table
\* with the rows (by id) and the row count it found.
C35_DeletesOnlyViolatingRows ==
    (chain = "sanity" /\ san.mode = "check" /\ san.hist # <<>>) =>
       /\ \A s \in PassStart.rows.shows :
             Cardinality(ShowsOfKey(PassStart.rows.shows, s.indexer_id)) = 1
                => \E t \in rows.shows : t.show_id = s.show_id
       /\ \A e \in PassStart.rows.eps :
             (/\ HasParent(e, PassStart.rows.shows)
              /\ Cardinality(EpisodesOfKey(PassStart.rows.eps, EpisodeKey(e))) = 1)
                => \E f \in rows.eps : f.episode_id = e.episode_id
       /\ \A m \in PassStart.rows.maps : m.mindexer_id # "" => m \in rows.maps
       /\ (status # "raised" /\ Last(san.ran) \in UpdateRoutines) =>
             /\ { s.show_id : s \in rows.shows } = { s.show_id : s \in Before.shows }
             /\ { e.episode_id : e \in rows.eps } = { e.episode_id : e \in Before.eps }
             /\ Cardinality(rows.shows) = Cardinality(Before.shows)
             /\ Cardinality(rows.eps) = Cardinality(Before.eps)
             /\ rows.maps = Before.maps

\* C35, its case: a call of check() that completed deleted an orphan episode
\* and kept the episode that had a parent show and a key of its own
C35_Witness ==
    /\ chain = "sanity" /\ san.mode = "check" /\ status = "done"
    /\ Cardinality(PassStart.rows.eps) = 2 /\ Cardinality(rows.eps) = 1
    /\ \E e \in PassStart.rows.eps :
          /\ HasParent(e, PassStart.rows.shows)
          /\ \E f \in rows.eps : f.episode_id = e.episode_id
    /\ \E e \in PassStart.rows.eps : ~HasParent(e, PassStart.rows.shows)

\* C36: in migrate_config every iteration of the loop takes one backup,
\* labelled with the config_version before the step, before it calls
\* _migrate_v<next>, the steps without a body (2 and 9) included, and calls
\* save_config once after the step with app.CONFIG_VERSION at the step's
\* version: the i-th backup of a run that started at version v is labelled
\* v + i - 1, the i-th step is v + i, there is one save per step, and after k
\* steps the saved version is v + k.
C36_ConfigBackupAndSavePerStep ==
    chain = "config" =>
       /\ cfg.steps = [i \in 1..Len(cfg.steps) |-> cfg.start + i]
       /\ cfg.backups = [i \in 1..Len(cfg.backups) |-> cfg.start + i - 1]
       /\ Len(cfg.backups) = Len(cfg.steps) + (IF cfg.pc = "migrate" THEN 1 ELSE 0)
       /\ cfg.saves = Len(cfg.steps)
       /\ cfg.file = IF cfg.steps = <<>> THEN cfg.read
                     ELSE Stored(cfg.start + Len(cfg.steps))
       /\ cfg.steps # <<>> => cfg.app = Last(cfg.steps)

\* C36, its case: the loop has run the steps 1 .. 10 from version 0, steps 2
\* and 9 among them, with ten backups and ten saves
C36_Witness ==
    /\ chain = "config" /\ status = "done" /\ cfg.start = 0
    /\ cfg.backups = [i \in 1..CONFIG_VERSION |-> i - 1]
    /\ cfg.saves = CONFIG_VERSION /\ cfg.file = Stored(CONFIG_VERSION)
    /\ \E i, j \in 1..Len(cfg.steps) : cfg.steps[i] = 2 /\ cfg.steps[j] = 9

\* the ten slots C37 gives for the six slots o of the old format
C37_Slots(o, metadata_name, use_banner) ==
    IF metadata_name = "XBMC" /\ use_banner
    THEN << o[1], o[2], o[4], << "0" >>, o[3], o[5], o[6], << "0" >>, << "0" >>, << "0" >> >>
    ELSE << o[1], o[2], o[4], o[3], << "0" >>, o[5], o[6], << "0" >>, << "0" >>, << "0" >> >>

\* C37: for a value of six slots o1|o2|o3|o4|o5|o6 _migrate_metadata returns
\* o1|o2|o4|o3|0|o5|o6|0|0|0, except for the name 'XBMC' with use_banner set,
\* where it returns o1|o2|o4|0|o3|o5|o6|0|0|0.
C37_SlotMapping ==
    (chain = "metadata" /\ call.out # <<>> /\ SlotCount(call.arg.metadata) = 6)
        => call.out[1] = join(C37_Slots(split(call.arg.metadata), call.arg.metadata_name,
                                        call.arg.use_banner))

\* C37, its case: 1|0|1|0|1|0 was upgraded for 'XBMC' with use_banner set: the
\* poster value 1 of slot 3 is in the banner slot 5 and the poster slot 4 is 0
C37_Witness ==
    /\ chain = "metadata" /\ Len(call.out) = 1
    /\ call.arg.metadata_name = "XBMC" /\ call.arg.use_banner
    /\ call.arg.metadata = << "1", "|", "0", "|", "1", "|", "0", "|", "1", "|", "0" >>
    /\ call.out[1] = << "1", "|", "0", "|", "0", "|", "0", "|", "1", "|", "1", "|", "0", "|",
                        "0", "|", "0", "|", "0" >>

\* C38: after the provider step on a torrentrss_data string
\* app.TORRENTRSS_PROVIDERS holds one id per provider of
\* app.torrentRssProviderList, in the order of that list: as many ids as
\* providers, the k-th id the upper-cased name of the k-th provider.
C38_OneIdPerProvider ==
    (chain = "providers" /\ call.fn = "get_rss_torrent_providers_list" /\ call.pc = "done"
       /\ call.out.raised = "")
        => /\ Len(call.out.ids) = Len(call.out.out)
           /\ \A k \in 1..Len(call.out.out) : call.out.ids[k] = upper(call.out.out[k].name)

\* C39: when steps 5 and 6 run in the same run on a config whose
\* metadata_xbmc has six slots, the value step 6 gives app.METADATA_KODI is
\* the ten-slot value step 5 produced for XBMC.
C39_StepsCompose ==
    (chain = "metadata" /\ call.kodi # <<>> /\ SlotCount(call.arg.metadata) = 6)
        => call.kodi[1] = call.out[1]

\* the config file had an integer config_version when ConfigMigrator read it
HasIntegerVersion == cfg.read # <<>> /\ IsNumeral(cfg.read[1])

\* the run treats the config as current: the version is read as
\* CONFIG_VERSION, which is written to the config object; no backup, no step,
\* no save, and the file is as it was
TreatedAsCurrent ==
    /\ cfg.start = CONFIG_VERSION /\ cfg.version = CONFIG_VERSION
    /\ cfg.obj = Stored(CONFIG_VERSION)
    /\ cfg.backups = <<>> /\ cfg.steps = <<>> /\ cfg.saves = 0
    /\ cfg.file = cfg.read
    /\ status \in {"running", "done", "crashed"}
    /\ status = "running" => cfg.pc = "check"

\* C40: when the config has no General/config_version key, or a value that is
\* not an integer, ConfigMigrator reads the version as app.CONFIG_VERSION and
\* writes it to the config object, and migrate_config runs no step, takes no
\* backup and never calls save_config.
C40_NoVersionIsCurrent ==
    (chain = "config" /\ ~HasIntegerVersion) => TreatedAsCurrent

\* C40 as amended: the same for a config without the key or with a value that
\* int() rejects and that is not 'true' or 'false' in any case; 'true' is read
\* as version 1 and 'false' as version 0 and the chain runs from there.
C40_NoVersionIsCurrentUnlessBoolean ==
    /\ (chain = "config" /\ ~HasIntegerVersion
          /\ (cfg.read = <<>> \/ str_lower(cfg.read[1]) \notin {"true", "false"}))
          => TreatedAsCurrent
    /\ (chain = "config" /\ cfg.read # <<>> /\ str_lower(cfg.read[1]) = "true")
          => cfg.start = 1
    /\ (chain = "config" /\ cfg.read # <<>> /\ str_lower(cfg.read[1]) = "false")
          => cfg.start = 0

\* C40, its case: migrate_config has returned on a config without the key
C40_Witness ==
    /\ chain = "config" /\ status = "done" /\ cfg.read = <<>>
    /\ cfg.obj = Stored(CONFIG_VERSION) /\ cfg.app = CONFIG_VERSION
    /\ cfg.saves = 0 /\ cfg.backups = <<>>

=============================================================================
